---- MODULE Spec2Model ----
(***************************************************************************)
(* goscale: frame codecs (AKU, Themis, Lunar) and the per-device           *)
(* connection state machine (Connect / Disconnect / liveness monitor /     *)
(* notification handler / weight update channel), the Lunar command        *)
(* encoder and the device scanner.                                         *)
(*                                                                         *)
(* The specifications of this module:                     *)
(*   SpecDecode   - the pure decoders applied to bounded byte buffers       *)
(*   Spec         - one scale value driven by a caller, the transport's     *)
(*                  notification callback, the liveness goroutines and a    *)
(*                  consumer of the weight update channel                   *)
(*   SpecPassive  - Spec restricted to the passive-timeout families with    *)
(*                  the scheduler's fairness, for liveness                  *)
(*   SpecOnce     - Spec with a single Connect call                         *)
(*   SpecHeartbeat- one session of the active-heartbeat family with the     *)
(*                  scheduler's fairness, for liveness                      *)
(*   SpecCycler   - the Themis auto-off settings cycler                     *)
(*   SpecScan     - one call of Scan and the advertisements it receives     *)
(*   SpecScanOne  - one call of ScanForOne                                  *)
(*   SpecEncode   - the command builders applied to bounded inputs          *)
(*   SpecAdvance  - Themis AdvanceSleepTimeout against a device that        *)
(*                  reports back the setting it was asked for               *)
(***************************************************************************)
EXTENDS Integers, Sequences, FiniteSets, TLC

(***************************************************************************)
(* Bounds of the model                                                     *)
(***************************************************************************)
\* longest unstructured byte buffer handed to the decoders
MaxGarbageLen == 5
\* largest length byte declared by a structured Lunar frame
MaxDeclLen == 10
\* largest number of bytes following the length byte of a structured frame
MaxBodyLen == 12
\* number of Connect calls the caller makes on the scale value
MaxConnects == 2
\* pending weight updates the model lets a channel hold
MaxQueue == 1
\* clock ticks after which the one-second grace period has elapsed
GraceTicks == 1
\* largest current value handed to the cycler, besides the samples beyond it
MaxCurrent == 40
\* bytes a weight event payload may carry beyond its six
MaxExtra == 1

\* longest device name an advertisement carries
MaxNameLen == 2

\* number of distinct device addresses that advertise
MaxAddrs == 2

\* number of advertisements received during one Scan
MaxAdverts == 2

\* longest payload handed to the Lunar encoder
MaxPayloadLen == 3

\* number of AdvanceSleepTimeout calls made against the device in the loop
MaxAdvances == 6

(***************************************************************************)
(* Program constants                                                       *)
(***************************************************************************)
HeaderPrefix1 == 239
HeaderPrefix2 == 221
\* make(chan goscale.WeightUpdate, 20)
WeightChanCap == 20
\* len(data) != 20 in the Themis decoder
ThemisFrameLen == 20
\* largest value of the uint16 argument of NextWithInt
MaxUint16 == 65535

(***************************************************************************)
(* Byte and slice helpers (Go semantics)                                   *)
(***************************************************************************)
Byte == 0..255

\* s[i] with Go's 0-based index
At(s, i) == s[i + 1]

\* an index expression s[i] is in range
IndexOK(s, i) == i >= 0 /\ i < Len(s)

\* a slice expression s[lo:hi] is in range (capacity taken equal to length)
SliceOK(s, lo, hi) == lo >= 0 /\ lo <= hi /\ hi <= Len(s)

\* s[lo:hi]
GoSlice(s, lo, hi) == SubSeq(s, lo + 1, hi)

\* n copies of byte b
Fill(n, b) == [i \in 1..n |-> b]

Min(a, b) == IF a < b THEN a ELSE b

RECURSIVE XorBits(_, _, _)
XorBits(a, b, n) ==
    IF n = 0 THEN 0
    ELSE (((a % 2) + (b % 2)) % 2) + 2 * XorBits(a \div 2, b \div 2, n - 1)

\* a ^ b on bytes
Xor(a, b) == XorBits(a, b, 8)

\* a float64 result kept exact: num / den
Rat(n, d) == [num |-> n, den |-> d]

\* results of a decoder call: a value, an explicit failure, or a run-time panic
Panic(why) == [kind |-> "panic", why |-> why]
Fail(why) == [kind |-> "err", err |-> why]
Ok(msg) == [kind |-> "ok", msg |-> msg]

(***************************************************************************)
(* Lunar frame codec                                                       *)
(***************************************************************************)
\* (variant) the search that returns the last EF DD of the buffer
IndexHeader_Last(data) ==
    LET hits == {i \in 0..(Len(data) - 2) :
                    At(data, i) = HeaderPrefix1 /\ At(data, i + 1) = HeaderPrefix2}
    IN IF hits = {} THEN -1 ELSE CHOOSE i \in hits : \A j \in hits : i >= j

\* bytes.Index(data, {EF, DD})
IndexHeader(data) ==
    LET hits == {i \in 0..(Len(data) - 2) :
                    At(data, i) = HeaderPrefix1 /\ At(data, i + 1) = HeaderPrefix2}
    IN IF hits = {} THEN -1 ELSE CHOOSE i \in hits : \A j \in hits : i <= j

bcdToDec(bcd) == ((bcd \div 16) * 10 + (bcd % 16)) % 256

\* (variant) the four bytes read most significant first
LittleEndianUint32_BigEndian(b) ==
    16777216 * At(b, 0) + 65536 * At(b, 1) + 256 * At(b, 2) + At(b, 3)

\* binary.LittleEndian.Uint32(b)
LittleEndianUint32(b) ==
    At(b, 0) + 256 * At(b, 1) + 65536 * At(b, 2) + 16777216 * At(b, 3)

decodeWeight(payload) ==
    IF Len(payload) < 6 THEN Fail("weight payload too short")
    ELSE
      LET unit == At(payload, 4)
          divisor == CASE unit = 1 -> 10
                       [] unit = 2 -> 100
                       [] unit = 3 -> 1000
                       [] unit = 4 -> 10000
                       [] OTHER -> 10
          flags == At(payload, 5)
          isStable == (flags % 2) = 0
          sign == IF (flags \div 2) % 2 # 0 THEN -1 ELSE 1
          weightType == flags \div 4
          raw == LittleEndianUint32(GoSlice(payload, 0, 4))
      IN Ok([type |-> "Weight", Weight |-> Rat(sign * raw, divisor),
             Type |-> weightType, IsStable |-> isStable])

DecodeStatusMessage(payload) ==
    IF Len(payload) < 9 THEN Fail("invalid payload length")
    ELSE Ok([type |-> "Status",
             StatusLength |-> At(payload, 0),
             Battery |-> At(payload, 1) % 128,
             IsTimerRunning |-> (At(payload, 1) \div 128) % 2 = 1,
             Unit |-> At(payload, 2) % 128,
             IsCountdownRunning |-> (At(payload, 2) \div 128) % 2 = 1,
             ScaleMode |-> At(payload, 3) % 128,
             IsTared |-> (At(payload, 3) \div 128) % 2 = 1,
             SleepTimerSetting |-> At(payload, 4),
             KeyDisableSetting |-> At(payload, 5),
             SoundSetting |-> At(payload, 6),
             ResolutionSetting |-> Xor(At(payload, 7), 1),
             CapacitySetting |-> At(payload, 8)])

\* DecodeStatusMessage of package decode (comms/decode/decode.go): only 9 or
\* 12 bytes are accepted, the resolution byte is kept as it is, and a 12-byte
\* payload carries the timer value
decode_DecodeStatusMessage(payload) ==
    IF Len(payload) # 9 /\ Len(payload) # 12 THEN Fail("invalid payload length")
    ELSE Ok([type |-> "Status",
             StatusLength |-> At(payload, 0),
             Battery |-> At(payload, 1) % 128,
             IsTimerRunning |-> (At(payload, 1) \div 128) % 2 = 1,
             Unit |-> At(payload, 2) % 128,
             IsCountdownRunning |-> (At(payload, 2) \div 128) % 2 = 1,
             ScaleMode |-> At(payload, 3) % 128,
             IsTared |-> (At(payload, 3) \div 128) % 2 = 1,
             SleepTimerSetting |-> At(payload, 4),
             KeyDisableSetting |-> At(payload, 5),
             SoundSetting |-> At(payload, 6),
             ResolutionSetting |-> At(payload, 7),
             CapacitySetting |-> At(payload, 8),
             TimerValue |-> IF Len(payload) = 12
                            THEN At(payload, 9) * 60 + At(payload, 10) ELSE 0])

DecodeDeviceInfoMessage(payload) ==
    IF Len(payload) # 7 THEN Fail("invalid payload length for device info")
    ELSE Ok([type |-> "DeviceInfo",
             Main |-> bcdToDec(At(payload, 3)),
             Sub |-> bcdToDec(At(payload, 4)),
             Add |-> bcdToDec(At(payload, 2)),
             IsPasswordSet |-> At(payload, 6) # 0])

decodeEventMessage(msgType, payload, rawFrame) ==
    IF msgType = 5
    THEN LET r == decodeWeight(payload)
         IN IF r.kind = "err" THEN Fail("failed to decode weight for msgType 5") ELSE r
    ELSE Ok([type |-> "Unhandled", CommandID |-> 12, Nested |-> TRUE,
             MsgType |-> msgType, Payload |-> payload, RawFrame |-> rawFrame])

\* the minimal-length test on the frame that starts at the header
FrameTooShort(frame) == Len(frame) < 4

\* (variant) the declared-length test off by one: a frame one byte short passes
LengthMismatch_OffByOne(frame, expectedFrameLen) == Len(frame) < expectedFrameLen - 1

\* the declared-length test: the buffer holds fewer bytes than the frame claims
LengthMismatch(frame, expectedFrameLen) == Len(frame) < expectedFrameLen

\* dispatch on the command id of a frame already cut to its declared length
DispatchCommand(frame) ==
    LET commandID == At(frame, 2)
        hi == Len(frame) - 2
    IN CASE commandID = 12 ->
              IF ~IndexOK(frame, 4) THEN Panic("index out of range")
              ELSE IF ~SliceOK(frame, 5, hi) THEN Panic("slice bounds out of range")
              ELSE decodeEventMessage(At(frame, 4), GoSlice(frame, 5, hi), frame)
         [] commandID = 8 ->
              IF ~SliceOK(frame, 3, hi) THEN Panic("slice bounds out of range")
              ELSE DecodeStatusMessage(GoSlice(frame, 3, hi))
         [] commandID = 7 ->
              IF ~SliceOK(frame, 3, hi) THEN Panic("slice bounds out of range")
              ELSE DecodeDeviceInfoMessage(GoSlice(frame, 3, hi))
         [] OTHER ->
              IF ~SliceOK(frame, 4, hi) THEN Panic("slice bounds out of range")
              ELSE Ok([type |-> "Unhandled", CommandID |-> commandID, Nested |-> FALSE,
                       MsgType |-> 0, Payload |-> GoSlice(frame, 4, hi),
                       RawFrame |-> frame])

DecodeNotification(data) ==
    LET idx == IndexHeader(data)
    IN IF idx = -1 THEN Fail("message header not found")
       ELSE
         LET frame == GoSlice(data, idx, Len(data))
         IN IF FrameTooShort(frame) THEN Fail("incomplete message frame")
            ELSE
              LET payloadLen == At(frame, 3)
                  expectedFrameLen == payloadLen + 5
              IN IF LengthMismatch(frame, expectedFrameLen)
                 THEN Fail("message frame length mismatch")
                 ELSE IF ~SliceOK(frame, 0, expectedFrameLen)
                 THEN Panic("slice bounds out of range")
                 ELSE DispatchCommand(GoSlice(frame, 0, expectedFrameLen))

\* the byte sum Encode keeps over the payload bytes at the even (parity 0) or
\* odd (parity 1) zero-based positions of the first n bytes
RECURSIVE Csum(_, _, _)
Csum(payload, parity, n) ==
    IF n = 0 THEN 0
    ELSE (Csum(payload, parity, n - 1)
            + (IF (n - 1) % 2 = parity THEN payload[n] ELSE 0)) % 256

\* (variant) Encode that appends the odd-position sum before the even one
Encode_SwappedTrailers(messageType, payload) ==
    <<HeaderPrefix1, HeaderPrefix2, messageType>> \o payload
        \o <<Csum(payload, 1, Len(payload)), Csum(payload, 0, Len(payload))>>

\* Encode: header, message type, the payload as it is, two checksum bytes
Encode(messageType, payload) ==
    <<HeaderPrefix1, HeaderPrefix2, messageType>> \o payload
        \o <<Csum(payload, 0, Len(payload)), Csum(payload, 1, Len(payload))>>

BuildIdentifyCommand ==
    Encode(11, <<48, 49, 50, 51, 52, 53, 54, 55, 56, 57, 48, 49, 50, 51, 52>>)

BuildNotificationRequestCommand ==
    LET eventData == <<0, 1, 1, 2, 2, 5, 3, 4>>
    IN Encode(12, <<Len(eventData) + 1>> \o eventData)

BuildTareCommand == Encode(4, <<0>>)

BuildGetStatusCommand == Encode(6, <<0>>)

\* the values of AutoOffSetting: disabled, 5, 10, 20, 30 and 60 minutes
AutoOffSettingValues == 0..5

LunarBuildAutoOffCommand(setting) == Encode(10, <<0, 1, setting>>)

(***************************************************************************)
(* AKU frame codec                                                         *)
(***************************************************************************)
\* returns (weight, ok); every index expression is checked as Go checks it
AkuDecodeStatusUpdate(rawStatus) ==
    IF ~IndexOK(rawStatus, 1) THEN Panic("index out of range")
    ELSE IF At(rawStatus, 1) = 1
    THEN IF ~IndexOK(rawStatus, 3) \/ ~IndexOK(rawStatus, 4) \/ ~IndexOK(rawStatus, 5)
         THEN Panic("index out of range")
         ELSE LET sign == IF (At(rawStatus, 3) \div 16) % 2 # 0 THEN -1 ELSE 1
                  mag == (At(rawStatus, 3) % 16) * 65536 + At(rawStatus, 4) * 256
                         + At(rawStatus, 5)
              IN Ok([type |-> "Weight", Weight |-> Rat(sign * mag, 100)])
    ELSE Fail("not a weight frame")

(***************************************************************************)
(* Themis frame codec                                                      *)
(***************************************************************************)
\* (variant) the weight taken as positive whatever the sign byte says
ThemisGramsWeight_Unsigned(data) ==
    Rat(At(data, 7) * 65536 + At(data, 8) * 256 + At(data, 9), 100)

\* GramsWeight: grams * 100 big-endian in bytes 7..9, negative when byte 6 is '-'
ThemisGramsWeight(data) ==
    LET gramsUint == At(data, 7) * 65536 + At(data, 8) * 256 + At(data, 9)
    IN IF At(data, 6) = 45 THEN Rat(-gramsUint, 100) ELSE Rat(gramsUint, 100)

\* returns (*StatusUpdate, ok); a failure returns the nil pointer
ThemisDecodeStatusUpdate(data) ==
    IF Len(data) # ThemisFrameLen THEN Fail("length")
    ELSE
      LET flowRateUint == At(data, 11) * 256 + At(data, 12)
      IN Ok([type |-> "StatusUpdate",
             Milliseconds |-> At(data, 2) * 65536 + At(data, 3) * 256 + At(data, 4),
             GramsWeight |-> ThemisGramsWeight(data),
             FlowRate |-> Rat(flowRateUint, 100),
             StandbyTime |-> (At(data, 14) * 256 + At(data, 15)) \div 10,
             ProductNumber |-> At(data, 0),
             Type |-> At(data, 1),
             UnitOfWeight |-> At(data, 5),
             WeightSymbolData |-> At(data, 6),
             FlowRateSymbol |-> At(data, 10),
             PowerPercentage |-> At(data, 13),
             BuzzerGear |-> At(data, 16),
             SmoothingSwitch |-> At(data, 17),
             Reserved1 |-> At(data, 18),
             Reserved2 |-> At(data, 19)])

(***************************************************************************)
(* Themis command frames                                                   *)
(***************************************************************************)
\* var ThemisTareCommand = []byte{0x03, 0x0a, 0x01, 0x00, 0x00, 0x08}
ThemisTareCommand == <<3, 10, 1, 0, 0, 8>>

\* the for loop of CalculateChecksum over the first n bytes of data
RECURSIVE ChecksumLoop(_, _)
ChecksumLoop(data, n) ==
    IF n = 0 THEN 0 ELSE Xor(ChecksumLoop(data, n - 1), At(data, n - 1))

\* (variant) CalculateChecksum that adds the bytes instead of xoring them
CalculateChecksum_Sum(data) ==
    LET Sum[n \in 0..Len(data)] == IF n = 0 THEN 0 ELSE (Sum[n - 1] + At(data, n - 1)) % 256
    IN Sum[Len(data)]

\* CalculateChecksum(data): the XOR of every byte
CalculateChecksum(data) == ChecksumLoop(data, Len(data))

\* BuildAutoOffCommand(setting): uint8(setting) behind the four fixed bytes
ThemisBuildAutoOffCommand(setting) ==
    LET payload == <<3, 10, 3, 0, setting % 256>>
    IN Append(payload, CalculateChecksum(payload))

\* BuildChangeBeepCommand(beep): gear 5 when beep is on, 0 when off
BuildChangeBeepCommand(beep) ==
    LET set == IF beep THEN 5 ELSE 0
        payload == <<3, 10, 2, 0, set>>
    IN Append(payload, CalculateChecksum(payload))

(***************************************************************************)
(* Themis auto-off settings cycler                                         *)
(***************************************************************************)
\* the settings in the order newAutoOffSettingsManager lists them
AutoOffSettings == <<5, 10, 15, 20, 30>>

\* s with the value v put in front of the first element greater than it
RECURSIVE InsertSorted(_, _)
InsertSorted(s, v) ==
    IF s = <<>> THEN <<v>>
    ELSE IF v <= Head(s) THEN <<v>> \o s
    ELSE <<Head(s)>> \o InsertSorted(Tail(s), v)

\* the copy of the settings as ints, sorted ascending (sort.Slice)
RECURSIVE SortedCopy(_)
SortedCopy(s) == IF s = <<>> THEN <<>> ELSE InsertSorted(SortedCopy(Tail(s)), Head(s))

newAutoOffSettingsManager ==
    [settings |-> AutoOffSettings, sortedSettings |-> SortedCopy(AutoOffSettings),
     index |-> 0]

\* (variant) the search predicate with >= : finds the first setting not below target
RECURSIVE SearchGreater_OrEqual(_, _, _, _)
SearchGreater_OrEqual(sorted, target, i, j) ==
    IF i >= j THEN i
    ELSE LET h == (i + j) \div 2
         IN IF At(sorted, h) >= target
            THEN SearchGreater_OrEqual(sorted, target, i, h)
            ELSE SearchGreater_OrEqual(sorted, target, h + 1, j)

\* sort.Search(len(sorted), func(i) { return sorted[i] > target }) on [i, j)
RECURSIVE SearchGreater(_, _, _, _)
SearchGreater(sorted, target, i, j) ==
    IF i >= j THEN i
    ELSE LET h == (i + j) \div 2
         IN IF At(sorted, h) > target
            THEN SearchGreater(sorted, target, i, h)
            ELSE SearchGreater(sorted, target, h + 1, j)

\* (variant) NextWithInt that starts its search at the rotation index
NextWithInt_FromIndex(m, n) ==
    IF Len(m.sortedSettings) = 0 THEN 5
    ELSE LET idx == SearchGreater(m.sortedSettings, n, m.index, Len(m.sortedSettings))
         IN IF idx < Len(m.sortedSettings) THEN At(m.sortedSettings, idx)
            ELSE At(m.sortedSettings, 0)

\* m.NextWithInt(n)
NextWithInt(m, n) ==
    IF Len(m.sortedSettings) = 0 THEN 5
    ELSE LET idx == SearchGreater(m.sortedSettings, n, 0, Len(m.sortedSettings))
         IN IF idx < Len(m.sortedSettings) THEN At(m.sortedSettings, idx)
            ELSE At(m.sortedSettings, 0)

(***************************************************************************)
(* State                                                                   *)
(***************************************************************************)
VARIABLES
    dbuf,              \* decoder harness: the byte buffer handed to a decoder
    dres,              \* decoder harness: which decoder ran and what it returned
    mgr,               \* the autoOffSettingsManager: [settings, sortedSettings, index]
    cyN,               \* the current value the cycler's user passes to NextWithInt
    cyRet,             \* last returns of the cycler: [op, next, withInt], 0 = none yet
    scan,              \* one call of Scan or ScanForOne: [pc, prefixes, adverts,
                       \*   foundDevices, results, ret, found, seen, ctx]
    enc,               \* encoder harness: [fn, arg, payload, out], fn "none" before the call
    dev,               \* a Themis device in the loop: [start, standby, requested]
    family,            \* which implementation the scale value is
    chans,             \* every channel made so far: [open, closes, buf]
    ctxs,              \* every cancellation context made so far: TRUE = cancelled
    weightUpdateChan,  \* field: index into chans, Nil before the first Connect
    disconnectCtx,     \* fields disconnectCtx/disconnectFunc: index into ctxs
    connected,         \* field connected (Themis, AKU) / isConnected (Lunar)
    btDevice,          \* transport handle: "none", "connected", "disconnected"
    notifyOn,          \* the transport has a notification callback registered
    linkUp,            \* the device still sends notifications
    lastNotified,      \* field lastNotified, kept as ticks elapsed since it
    status,            \* field status (Themis: pointer, Lunar: value)
    synced,            \* field synced (Lunar)
    pc,                \* position of the caller (0) and of each liveness goroutine
    cont,              \* where each thread continues when its Disconnect returns
    handler,           \* the transport's callback thread: [pc, ch, val, bad]
    handed,            \* channels returned to the caller by a successful Connect
    last,              \* the caller's last completed call: [op, ret, again]
    written,           \* what the caller's current or last call did on the
                       \* characteristics: notifications enabled, commands written
    crashed            \* "none", or the run-time panic that ended the process

\* the state outside the session: the decoder harness, the settings cycler
\* and the scanner
cyclerVars == <<mgr, cyN, cyRet>>
decodeVars == <<dbuf, dres, mgr, cyN, cyRet, scan, enc, dev>>
sessionVars == <<family, chans, ctxs, weightUpdateChan, disconnectCtx, connected,
                 btDevice, notifyOn, linkUp, lastNotified, status, synced, pc, cont,
                 handler, handed, last, written, crashed>>
vars == <<dbuf, dres, mgr, cyN, cyRet, scan, enc, dev, family, chans, ctxs, weightUpdateChan, disconnectCtx, connected,
          btDevice, notifyOn, linkUp, lastNotified, status, synced, pc, cont,
          handler, handed, last, written, crashed>>

Nil == 0
\* the zero time.Time
ZeroTime == -1
Caller == 0
Monitors == 1..MaxConnects
Threads == {Caller} \cup Monitors
Families == {"themis", "aku", "lunar"}

NotDecoded == [fam |-> "none", r |-> [kind |-> "pending"]]
NoCrash == [why |-> "none", by |-> "none"]
HandlerIdle == [pc |-> "idle", ch |-> Nil, val |-> Rat(0, 1), bad |-> FALSE]

\* the zero value of the struct fields after New()
NilStatus == [ptr |-> "nil"]
LunarZeroStatus == [type |-> "Status", StatusLength |-> 0, Battery |-> 0,
                    IsTimerRunning |-> FALSE, Unit |-> 0, IsCountdownRunning |-> FALSE,
                    ScaleMode |-> 0, IsTared |-> FALSE, SleepTimerSetting |-> 0,
                    KeyDisableSetting |-> 0, SoundSetting |-> 0,
                    ResolutionSetting |-> 0, CapacitySetting |-> 0]

NoReturn == [op |-> "none", next |-> 0, withInt |-> 0]

\* no Scan called yet: nothing registered, nothing received, nothing found
NoScan == [pc |-> "idle", prefixes |-> {}, adverts |-> <<>>, foundDevices |-> <<>>,
           results |-> <<>>, ret |-> "none",
           found |-> [Name |-> <<>>, Address |-> 0, RSSI |-> 0], seen |-> 0, ctx |-> "live"]

\* no encoder called yet
NoEnc == [fn |-> "none", arg |-> 0, payload |-> <<>>, out |-> <<>>]

\* no device in the loop: nothing reported, nothing requested, no command
\* waiting at the device, every call so far answered
NoDev == [start |-> 0, standby |-> 0, requested |-> <<>>, cmd |-> <<>>, lockstep |-> TRUE]

\* the cycler as the package creates it, not yet called
NewCycler ==
    /\ mgr = newAutoOffSettingsManager
    /\ cyN = 0
    /\ cyRet = NoReturn

\* New(device): the scale value before any call
New(fam) ==
    /\ family = fam
    /\ chans = <<>>
    /\ ctxs = <<>>
    /\ weightUpdateChan = Nil
    /\ disconnectCtx = Nil
    /\ connected = FALSE
    /\ btDevice = "none"
    /\ notifyOn = FALSE
    /\ linkUp = TRUE
    /\ lastNotified = ZeroTime
    /\ status = (IF fam = "lunar" THEN [ptr |-> "val", v |-> LunarZeroStatus]
                 ELSE NilStatus)
    /\ synced = FALSE
    /\ pc = [t \in Threads |-> IF t = Caller THEN "idle" ELSE "unborn"]
    /\ cont = [t \in Threads |-> "idle"]
    /\ handler = HandlerIdle
    /\ handed = {}
    /\ last = [op |-> "none", ret |-> "none", again |-> FALSE]
    /\ written = <<>>
    /\ crashed = NoCrash

(***************************************************************************)
(* Frames as the devices send them                                         *)
(***************************************************************************)
\* a Themis record of n bytes: sign byte at 6, grams*100 in 7..9, standby*10 in 14..15
ThemisRecord(n, sign, grams) ==
    [i \in 1..n |->
        CASE i = 1 -> 3
          [] i = 2 -> 11
          [] i = 7 -> sign
          [] i = 8 -> grams \div 65536
          [] i = 9 -> (grams \div 256) % 256
          [] i = 10 -> grams % 256
          [] i = 14 -> 88
          [] i = 16 -> 50
          [] i = 17 -> 1
          [] OTHER -> 0]

\* an AKU frame cut to n bytes: type byte at 1, sign nibble and weight in 3..5
AkuFrame(n, type, b3) == SubSeq(<<250, type, 3, b3, 8, 102, 0>>, 1, n)

(***************************************************************************)
(* Session helpers                                                         *)
(***************************************************************************)
Alive == crashed = NoCrash

ThreadName(t) == IF t = Caller THEN "caller" ELSE "monitor"

\* an unrecovered panic in any goroutine ends the process
Crash(why, by) == crashed' = [why |-> why, by |-> by]

\* time.Now().After(lastNotified.Add(time.Second))
Stale == lastNotified = ZeroTime \/ lastNotified >= GraceTicks

\* the context a goroutine selects on has been cancelled
CtxDone == disconnectCtx # Nil /\ ctxs[disconnectCtx]

\* number of updates a channel buffers before a send blocks: the source's
\* capacity, scaled down to the bound MaxQueue
ChanCap == Min(WeightChanCap, MaxQueue)

Goto(t, where) == pc' = [pc EXCEPT ![t] = where]

\* thread t calls Disconnect and continues at k when it returns
CallDisconnectFrom(t, k) ==
    /\ pc' = [pc EXCEPT ![t] = "d_bt"]
    /\ cont' = [cont EXCEPT ![t] = k]

\* Disconnect returns result r to thread t
ReturnFromDisconnect(t, r) ==
    /\ pc' = [pc EXCEPT ![t] = cont[t]]
    /\ last' = IF t = Caller /\ cont[t] = "idle" THEN [last EXCEPT !.ret = r] ELSE last

\* notification buffers the device sends in the session specifications
LunarWeightFrame == <<HeaderPrefix1, HeaderPrefix2, 12, 8, 5, 102, 8, 0, 0, 2, 0, 0, 0>>
LunarStatusFrame == <<HeaderPrefix1, HeaderPrefix2, 8, 9, 88, 2, 0, 3, 0, 1, 0, 1, 0, 0>>
LunarUnhandledFrame == <<HeaderPrefix1, HeaderPrefix2, 1, 2, 0, 0, 0>>
LunarDeviceInfoFrame == <<HeaderPrefix1, HeaderPrefix2, 7, 7, 0, 2, 1, 0, 1, 0, 0, 0>>

NotifBufs(fam) ==
    CASE fam = "themis" ->
            {ThemisRecord(ThemisFrameLen, 43, 150), ThemisRecord(ThemisFrameLen - 1, 43, 150)}
      [] fam = "aku" -> {AkuFrame(7, 1, 0), AkuFrame(7, 0, 0), AkuFrame(0, 0, 0)}
      [] OTHER -> {LunarWeightFrame, LunarStatusFrame, LunarUnhandledFrame,
                   LunarDeviceInfoFrame, <<0, 1>>,
                   <<HeaderPrefix1, HeaderPrefix2, 12, 0, 0>>}

(***************************************************************************)
(* Connect (caller)                                                        *)
(***************************************************************************)
\* TryEnableAdapter, make the channel and the context, BTAdapter.Connect.
\* One step: no other goroutine runs on a fresh scale value, and on a reused
\* one the three field writes are adjacent.  A failed BTAdapter.Connect leaves
\* the zero Device in btDevice.
ConnectStart ==
    /\ Alive
    /\ pc[Caller] = "idle"
    /\ Len(chans) < MaxConnects
    /\ \E adapter \in {"ok", "err"}, bt \in {"ok", "err"} :
         IF adapter = "err"
         THEN /\ last' = [op |-> "Connect", ret |-> "err", again |-> FALSE]
              /\ UNCHANGED <<chans, weightUpdateChan, ctxs, disconnectCtx, btDevice,
                             linkUp, pc>>
         ELSE /\ chans' = Append(chans, [open |-> TRUE, closes |-> 0, buf |-> <<>>])
              /\ weightUpdateChan' = Len(chans) + 1
              /\ ctxs' = Append(ctxs, FALSE)
              /\ disconnectCtx' = Len(ctxs) + 1
              /\ IF bt = "err"
                 THEN /\ btDevice' = "none"
                      /\ last' = [op |-> "Connect", ret |-> "err", again |-> FALSE]
                      /\ UNCHANGED <<linkUp, pc>>
                 ELSE /\ btDevice' = "connected"
                      /\ linkUp' = TRUE
                      /\ last' = [op |-> "Connect", ret |-> "pending", again |-> FALSE]
                      /\ Goto(Caller, "c_chars")
    /\ written' = <<>>
    /\ UNCHANGED <<decodeVars, family, connected, notifyOn, lastNotified, status,
                   synced, cont, handler, handed, crashed>>

\* setupCharacteristics: service and the two characteristics found, or an error
ConnectSetupCharacteristics ==
    /\ Alive
    /\ pc[Caller] = "c_chars"
    /\ \E r \in {"ok", "err"} :
         IF r = "ok" THEN Goto(Caller, "c_notif") /\ UNCHANGED cont
         ELSE CallDisconnectFrom(Caller, "c_fail")
    /\ UNCHANGED <<decodeVars, written, family, chans, ctxs, weightUpdateChan, disconnectCtx,
                   connected, btDevice, notifyOn, linkUp, lastNotified, status, synced,
                   handler, handed, last, crashed>>

\* outcomes of setupNotifications: Lunar adds the identify and request writes
SetupOutcomes(fam) ==
    IF fam = "lunar" THEN {"ok", "enable", "identify", "request"} ELSE {"ok", "enable"}

\* what writeChar.Write may return: once the link has dropped every write fails
WriteResults == IF linkUp THEN {"ok", "err"} ELSE {"err"}

\* one operation on a characteristic (enabling notifications, or a write of
\* command cmd with argument arg) that returned res
Wrote(cmd, arg, res) == [cmd |-> cmd, arg |-> arg, res |-> res]

\* setupNotifications during Connect: notifyChar.EnableNotifications, after
\* which Themis and AKU are done and Lunar goes on to its handshake
ConnectSetupNotifications ==
    /\ Alive
    /\ pc[Caller] = "c_notif"
    /\ \E r \in {"ok", "enable"} :
         /\ notifyOn' = (notifyOn \/ r # "enable")
         /\ written' = Append(written, Wrote("EnableNotifications", 0,
                                             IF r = "ok" THEN "ok" ELSE "err"))
         /\ IF r = "ok"
            THEN /\ Goto(Caller, IF family = "lunar" THEN "c_ident" ELSE "c_fin")
                 /\ UNCHANGED cont
            ELSE CallDisconnectFrom(Caller, "c_fail")
    /\ UNCHANGED <<decodeVars, family, chans, ctxs, weightUpdateChan, disconnectCtx,
                   connected, btDevice, linkUp, lastNotified, status, synced,
                   handler, handed, last, crashed>>

\* (variant) Lunar handshake that marks the session ready after the identify
\* write, without the notification request
ConnectIdentify_SkipsRequest ==
    /\ Alive
    /\ pc[Caller] = "c_ident"
    /\ \E w \in WriteResults :
         /\ written' = Append(written, Wrote("Identify", 0, w))
         /\ IF w = "ok" THEN Goto(Caller, "c_fin") /\ UNCHANGED cont
            ELSE CallDisconnectFrom(Caller, "c_fail")
    /\ UNCHANGED <<decodeVars, family, chans, ctxs, weightUpdateChan, disconnectCtx,
                   connected, btDevice, notifyOn, linkUp, lastNotified, status, synced,
                   handler, handed, last, crashed>>

\* Lunar setupNotifications during Connect: write IdentifyCommand
ConnectIdentify ==
    /\ Alive
    /\ pc[Caller] = "c_ident"
    /\ \E w \in WriteResults :
         /\ written' = Append(written, Wrote("Identify", 0, w))
         /\ IF w = "ok" THEN Goto(Caller, "c_req") /\ UNCHANGED cont
            ELSE CallDisconnectFrom(Caller, "c_fail")
    /\ UNCHANGED <<decodeVars, family, chans, ctxs, weightUpdateChan, disconnectCtx,
                   connected, btDevice, notifyOn, linkUp, lastNotified, status, synced,
                   handler, handed, last, crashed>>

\* Lunar setupNotifications during Connect: write NotificationRequestCommand
ConnectRequest ==
    /\ Alive
    /\ pc[Caller] = "c_req"
    /\ \E w \in WriteResults :
         /\ written' = Append(written, Wrote("NotificationRequest", 0, w))
         /\ IF w = "ok" THEN Goto(Caller, "c_fin") /\ UNCHANGED cont
            ELSE CallDisconnectFrom(Caller, "c_fail")
    /\ UNCHANGED <<decodeVars, family, chans, ctxs, weightUpdateChan, disconnectCtx,
                   connected, btDevice, notifyOn, linkUp, lastNotified, status, synced,
                   handler, handed, last, crashed>>

\* lastNotified = now (Themis, AKU); connected = true; go monitor; return the
\* channel.  The goroutine started by the n-th Connect is thread n.
ConnectFinish ==
    /\ Alive
    /\ pc[Caller] = "c_fin"
    /\ lastNotified' = (IF family = "lunar" THEN lastNotified ELSE 0)
    /\ connected' = TRUE
    /\ pc' = [pc EXCEPT ![Caller] = "idle", ![Len(chans)] = "loop"]
    /\ handed' = handed \cup {weightUpdateChan}
    /\ last' = [last EXCEPT !.ret = "ok"]
    /\ UNCHANGED <<decodeVars, written, family, chans, ctxs, weightUpdateChan, disconnectCtx,
                   btDevice, notifyOn, linkUp, status, synced, cont, handler, crashed>>

\* return nil, err after the internal Disconnect
ConnectFail ==
    /\ Alive
    /\ pc[Caller] = "c_fail"
    /\ Goto(Caller, "idle")
    /\ last' = [last EXCEPT !.ret = "err"]
    /\ UNCHANGED <<decodeVars, written, family, chans, ctxs, weightUpdateChan, disconnectCtx,
                   connected, btDevice, notifyOn, linkUp, lastNotified, status, synced,
                   cont, handler, handed, crashed>>

(***************************************************************************)
(* Disconnect (any thread: caller, Connect's error path, liveness task)    *)
(***************************************************************************)
\* the caller calls Disconnect; again = it follows a Disconnect that returned nil
CallDisconnect ==
    /\ Alive
    /\ pc[Caller] = "idle"
    /\ last.op # "none"
    /\ CallDisconnectFrom(Caller, "idle")
    /\ last' = [op |-> "Disconnect", ret |-> "pending",
                again |-> (last.op = "Disconnect" /\ last.ret = "ok")]
    /\ written' = <<>>
    /\ UNCHANGED <<decodeVars, family, chans, ctxs, weightUpdateChan, disconnectCtx,
                   connected, btDevice, notifyOn, linkUp, lastNotified, status, synced,
                   handler, handed, crashed>>

\* what btDevice.Disconnect() may return: a handle that never held a
\* connection cannot be disconnected, any other call may succeed or fail
TransportDisconnectResults == IF btDevice = "none" THEN {"err"} ELSE {"ok", "err"}

\* err := btDevice.Disconnect() returns nil: the transport connection is
\* released and with it the notification subscription
DisconnectTransportOk(t) ==
    /\ Alive
    /\ pc[t] = "d_bt"
    /\ "ok" \in TransportDisconnectResults
    /\ btDevice' = "disconnected"
    /\ notifyOn' = FALSE
    /\ Goto(t, "d_close")
    /\ UNCHANGED <<decodeVars, written, family, chans, ctxs, weightUpdateChan, disconnectCtx,
                   connected, linkUp, lastNotified, status, synced, cont,
                   handler, handed, last, crashed>>

\* (variant) a failed transport disconnect that still clears the connected flag
DisconnectTransportErr_ClearsFlag(t) ==
    /\ Alive
    /\ pc[t] = "d_bt"
    /\ "err" \in TransportDisconnectResults
    /\ ReturnFromDisconnect(t, "err")
    /\ connected' = FALSE
    /\ UNCHANGED <<decodeVars, written, family, chans, ctxs, weightUpdateChan, disconnectCtx,
                   btDevice, notifyOn, linkUp, lastNotified, status, synced,
                   cont, handler, handed, crashed>>

\* err := btDevice.Disconnect(); if err != nil { return err }
DisconnectTransportErr(t) ==
    /\ Alive
    /\ pc[t] = "d_bt"
    /\ "err" \in TransportDisconnectResults
    /\ ReturnFromDisconnect(t, "err")
    /\ UNCHANGED <<decodeVars, written, family, chans, ctxs, weightUpdateChan, disconnectCtx,
                   connected, btDevice, notifyOn, linkUp, lastNotified, status, synced,
                   cont, handler, handed, crashed>>

\* if weightUpdateChan != nil { close(weightUpdateChan) }
DisconnectCloseChan(t) ==
    /\ Alive
    /\ pc[t] = "d_close"
    /\ IF weightUpdateChan = Nil
       THEN Goto(t, "d_cancel") /\ UNCHANGED <<chans, crashed>>
       ELSE IF chans[weightUpdateChan].open
       THEN /\ chans' = [chans EXCEPT ![weightUpdateChan].open = FALSE,
                                      ![weightUpdateChan].closes = 1]
            /\ Goto(t, "d_cancel")
            /\ UNCHANGED crashed
       ELSE /\ Crash("close of closed channel", ThreadName(t))
            /\ chans' = [chans EXCEPT ![weightUpdateChan].closes = @ + 1]
            /\ UNCHANGED pc
    /\ UNCHANGED <<decodeVars, written, family, ctxs, weightUpdateChan, disconnectCtx, connected,
                   btDevice, notifyOn, linkUp, lastNotified, status, synced, cont,
                   handler, handed, last>>

\* (variant) Disconnect that forgets to fire the cancellation signal
DisconnectCancel_Forgotten(t) ==
    /\ Alive
    /\ pc[t] = "d_cancel"
    /\ Goto(t, "d_flag")
    /\ UNCHANGED <<decodeVars, written, family, chans, ctxs, weightUpdateChan, disconnectCtx,
                   connected, btDevice, notifyOn, linkUp, lastNotified, status, synced,
                   cont, handler, handed, last, crashed>>

\* disconnectFunc()
DisconnectCancel(t) ==
    /\ Alive
    /\ pc[t] = "d_cancel"
    /\ IF disconnectCtx = Nil
       THEN Crash("call of nil disconnectFunc", ThreadName(t)) /\ UNCHANGED <<ctxs, pc>>
       ELSE /\ ctxs' = [ctxs EXCEPT ![disconnectCtx] = TRUE]
            /\ Goto(t, "d_flag")
            /\ UNCHANGED crashed
    /\ UNCHANGED <<decodeVars, written, family, chans, weightUpdateChan, disconnectCtx, connected,
                   btDevice, notifyOn, linkUp, lastNotified, status, synced, cont,
                   handler, handed, last>>

\* connected = false; return nil
DisconnectClearFlag(t) ==
    /\ Alive
    /\ pc[t] = "d_flag"
    /\ connected' = FALSE
    /\ ReturnFromDisconnect(t, "ok")
    /\ UNCHANGED <<decodeVars, written, family, chans, ctxs, weightUpdateChan, disconnectCtx,
                   btDevice, notifyOn, linkUp, lastNotified, status, synced, cont,
                   handler, handed, crashed>>

Disconnect(t) ==
    \/ DisconnectTransportOk(t)
    \/ DisconnectTransportErr(t)
    \/ DisconnectCloseChan(t)
    \/ DisconnectCancel(t)
    \/ DisconnectClearFlag(t)

(***************************************************************************)
(* Liveness goroutines                                                     *)
(***************************************************************************)
\* Themis, AKU: one turn of the connectivity monitor's select
MonitorSelect(m) ==
    /\ Alive
    /\ family # "lunar"
    /\ pc[m] = "loop"
    /\ IF CtxDone THEN CallDisconnectFrom(m, "done")
       ELSE Stale /\ CallDisconnectFrom(m, "loop")
    /\ UNCHANGED <<decodeVars, written, family, chans, ctxs, weightUpdateChan, disconnectCtx,
                   connected, btDevice, notifyOn, linkUp, lastNotified, status, synced,
                   handler, handed, last, crashed>>

\* Lunar: one turn of the heartbeat goroutine's select
HeartbeatSelect(m) ==
    /\ Alive
    /\ family = "lunar"
    /\ pc[m] = "loop"
    /\ IF CtxDone THEN CallDisconnectFrom(m, "done")
       ELSE Goto(m, "hb_check") /\ UNCHANGED cont
    /\ UNCHANGED <<decodeVars, written, family, chans, ctxs, weightUpdateChan, disconnectCtx,
                   connected, btDevice, notifyOn, linkUp, lastNotified, status, synced,
                   handler, handed, last, crashed>>

\* sendHeartbeat: if !isConnected { return error }
HeartbeatCheck(m) ==
    /\ Alive
    /\ pc[m] = "hb_check"
    /\ Goto(m, IF connected THEN "hb_write" ELSE "loop")
    /\ UNCHANGED <<decodeVars, written, family, chans, ctxs, weightUpdateChan, disconnectCtx,
                   connected, btDevice, notifyOn, linkUp, lastNotified, status, synced,
                   cont, handler, handed, last, crashed>>

\* sendHeartbeat: write GetStatusCommand; when synced a failed write disconnects
HeartbeatWrite(m) ==
    /\ Alive
    /\ pc[m] = "hb_write"
    /\ \E w \in WriteResults :
         IF synced /\ w = "err" THEN CallDisconnectFrom(m, "hb_resub")
         ELSE Goto(m, "hb_resub") /\ UNCHANGED cont
    /\ UNCHANGED <<decodeVars, written, family, chans, ctxs, weightUpdateChan, disconnectCtx,
                   connected, btDevice, notifyOn, linkUp, lastNotified, status, synced,
                   handler, handed, last, crashed>>

\* sendHeartbeat: after the sleep, set up notifications again if none came lately
HeartbeatResubscribe(m) ==
    /\ Alive
    /\ pc[m] = "hb_resub"
    /\ IF Stale
       THEN \E r \in SetupOutcomes(family) : notifyOn' = (notifyOn \/ r # "enable")
       ELSE UNCHANGED notifyOn
    /\ Goto(m, "loop")
    /\ UNCHANGED <<decodeVars, written, family, chans, ctxs, weightUpdateChan, disconnectCtx,
                   connected, btDevice, linkUp, lastNotified, status, synced, cont,
                   handler, handed, last, crashed>>

(***************************************************************************)
(* Notification handler (transport callback thread)                        *)
(***************************************************************************)
Sending(v, isBad) == [pc |-> "send", ch |-> weightUpdateChan, val |-> v, bad |-> isBad]

\* ThemisScale.handleNotification up to the channel send
ThemisHandle(b) ==
    LET r == ThemisDecodeStatusUpdate(b)
    IN /\ lastNotified' = 0
       /\ status' = (IF r.kind = "ok" THEN [ptr |-> "set", v |-> r.msg] ELSE NilStatus)
       /\ IF r.kind = "ok"
          THEN handler' = Sending(r.msg.GramsWeight, FALSE) /\ UNCHANGED crashed
          ELSE /\ Crash("nil status in handleNotification", "handler")
               /\ handler' = [handler EXCEPT !.bad = TRUE]
       /\ UNCHANGED synced

\* AkuScale.handleNotification up to the channel send
AkuHandle(b) ==
    LET r == AkuDecodeStatusUpdate(b)
    IN /\ lastNotified' = 0
       /\ CASE r.kind = "panic" ->
                 Crash(r.why, "handler") /\ handler' = [handler EXCEPT !.bad = TRUE]
            [] r.kind = "ok" ->
                 handler' = Sending(r.msg.Weight, FALSE) /\ UNCHANGED crashed
            [] OTHER ->
                 handler' = Sending(Rat(0, 1), TRUE) /\ UNCHANGED crashed
       /\ UNCHANGED <<status, synced>>

\* LunarScale.handleNotification up to the channel send
LunarHandle(b) ==
    LET r == DecodeNotification(b)
    IN CASE r.kind = "panic" ->
              /\ Crash(r.why, "handler")
              /\ handler' = [handler EXCEPT !.bad = TRUE]
              /\ UNCHANGED <<lastNotified, status, synced>>
         [] r.kind = "err" ->
              /\ handler' = HandlerIdle
              /\ UNCHANGED <<lastNotified, status, synced, crashed>>
         [] r.kind = "ok" /\ r.msg.type = "Weight" ->
              /\ handler' = Sending(r.msg.Weight, FALSE)
              /\ UNCHANGED <<lastNotified, status, synced, crashed>>
         [] r.kind = "ok" /\ r.msg.type = "Status" ->
              /\ synced' = TRUE
              /\ status' = [ptr |-> "val", v |-> r.msg]
              /\ handler' = HandlerIdle
              /\ UNCHANGED <<lastNotified, crashed>>
         [] OTHER ->
              /\ handler' = HandlerIdle
              /\ UNCHANGED <<lastNotified, status, synced, crashed>>

\* the transport invokes handleNotification with one buffer
Notify ==
    /\ Alive
    /\ handler.pc = "idle"
    /\ notifyOn
    /\ linkUp
    /\ btDevice = "connected"
    /\ \E b \in NotifBufs(family) :
         CASE family = "themis" -> ThemisHandle(b)
           [] family = "aku" -> AkuHandle(b)
           [] OTHER -> LunarHandle(b)
    /\ UNCHANGED <<decodeVars, written, family, chans, ctxs, weightUpdateChan, disconnectCtx,
                   connected, btDevice, notifyOn, linkUp, pc, cont, handed, last>>

\* weightUpdateChan <- WeightUpdate{Value: v}: blocks while full, panics when closed
HandlerSend ==
    /\ Alive
    /\ handler.pc = "send"
    /\ IF ~chans[handler.ch].open
       THEN /\ Crash("send on closed channel", "handler")
            /\ UNCHANGED <<chans, handler, lastNotified>>
       ELSE /\ Len(chans[handler.ch].buf) < ChanCap
            /\ chans' = [chans EXCEPT ![handler.ch].buf = Append(@, handler.val)]
            /\ handler' = HandlerIdle
            /\ lastNotified' = (IF family = "lunar" THEN 0 ELSE lastNotified)
            /\ UNCHANGED crashed
    /\ UNCHANGED <<decodeVars, written, family, ctxs, weightUpdateChan, disconnectCtx, connected,
                   btDevice, notifyOn, linkUp, status, synced, pc, cont, handed, last>>

(***************************************************************************)
(* Caller: accessors, consumer of the channel; environment                 *)
(***************************************************************************)
\* the commands of a family that need no status: AKU has Tare only
CommandOps(fam) == IF fam = "aku" THEN {"Tare"} ELSE {"Tare", "SetBeep"}

AccessorOps == {"GetSleepTimeout", "GetBatteryChargePercent", "GetBeep",
                "AdvanceSleepTimeout"}

\* the timeout LunarScale.AdvanceSleepTimeout computes from the cached
\* SleepTimerSetting: AutoOffDisabled after 5, else the uint8 successor
LunarSleepTimeout(cached) ==
    IF cached # 5 THEN (cached + 1) % 256 ELSE 0

\* the setting AdvanceSleepTimeout asks for: Themis takes the legal setting
\* above the standby time of the status, Lunar the setting after the one of
\* the status, wrapping from 60 minutes to disabled
AdvanceSleepTimeoutSetting ==
    IF family = "themis" THEN NextWithInt(mgr, status.v.StandbyTime)
    ELSE LunarSleepTimeout(status.v.SleepTimerSetting)

\* the status accessors and AdvanceSleepTimeout: each reads a field of status;
\* AdvanceSleepTimeout then writes the auto-off command and returns an error
\* when the write failed
CallAccessor ==
    /\ Alive
    /\ pc[Caller] = "idle"
    /\ connected
    /\ family \in {"themis", "lunar"}
    /\ \E op \in AccessorOps, w \in WriteResults :
         IF status = NilStatus
         THEN Crash("nil status in " \o op, "caller") /\ UNCHANGED <<last, written>>
         ELSE /\ last' = [op |-> IF op = "AdvanceSleepTimeout" THEN "Command"
                                  ELSE "Accessor",
                          again |-> FALSE,
                          ret |-> IF op = "AdvanceSleepTimeout" THEN w ELSE "ok"]
              /\ written' = (IF op = "AdvanceSleepTimeout"
                             THEN <<Wrote("AutoOff", AdvanceSleepTimeoutSetting, w)>>
                             ELSE <<>>)
              /\ UNCHANGED crashed
    /\ UNCHANGED <<decodeVars, family, chans, ctxs, weightUpdateChan, disconnectCtx,
                   connected, btDevice, notifyOn, linkUp, lastNotified, status, synced,
                   pc, cont, handler, handed>>

\* Tare and SetBeep: one write of the command, the write's error returned
CallCommand ==
    /\ Alive
    /\ pc[Caller] = "idle"
    /\ connected
    /\ \E cmd \in CommandOps(family), beep \in {0, 1}, w \in WriteResults :
         /\ written' = <<Wrote(cmd, IF cmd = "SetBeep" THEN beep ELSE 0, w)>>
         /\ last' = [op |-> "Command", ret |-> w, again |-> FALSE]
    /\ UNCHANGED <<decodeVars, family, chans, ctxs, weightUpdateChan, disconnectCtx,
                   connected, btDevice, notifyOn, linkUp, lastNotified, status, synced,
                   pc, cont, handler, handed, crashed>>

\* the operations the AKU implementation has only as stubs
UnsupportedOps == {"SetSleepTimeout", "ReadBatteryChargePercent"}

\* AkuScale.SetSleepTimeout / ReadBatteryChargePercent: panic("implement me")
CallUnsupported ==
    /\ Alive
    /\ pc[Caller] = "idle"
    /\ family = "aku"
    /\ \E op \in UnsupportedOps :
         /\ last' = [op |-> op, ret |-> "pending", again |-> FALSE]
         /\ Crash("implement me", "caller")
    /\ written' = <<>>
    /\ UNCHANGED <<decodeVars, family, chans, ctxs, weightUpdateChan, disconnectCtx,
                   connected, btDevice, notifyOn, linkUp, lastNotified, status, synced,
                   pc, cont, handler, handed>>

\* the caller's receive loop takes the oldest update of a channel it was handed
Receive ==
    /\ Alive
    /\ \E c \in handed :
         /\ chans[c].buf # <<>>
         /\ chans' = [chans EXCEPT ![c].buf = Tail(@)]
    /\ UNCHANGED <<decodeVars, written, family, ctxs, weightUpdateChan, disconnectCtx, connected,
                   btDevice, notifyOn, linkUp, lastNotified, status, synced, pc, cont,
                   handler, handed, last, crashed>>

\* time passes: the recorded instant grows one tick older
Tick ==
    /\ Alive
    /\ lastNotified # ZeroTime
    /\ lastNotified < GraceTicks
    /\ lastNotified' = lastNotified + 1
    /\ UNCHANGED <<decodeVars, written, family, chans, ctxs, weightUpdateChan, disconnectCtx,
                   connected, btDevice, notifyOn, linkUp, status, synced, pc, cont,
                   handler, handed, last, crashed>>

\* the radio link drops silently: the device sends nothing more
LinkDrop ==
    /\ Alive
    /\ linkUp
    /\ btDevice = "connected"
    /\ linkUp' = FALSE
    /\ UNCHANGED <<decodeVars, written, family, chans, ctxs, weightUpdateChan, disconnectCtx,
                   connected, btDevice, notifyOn, lastNotified, status, synced, pc, cont,
                   handler, handed, last, crashed>>

(***************************************************************************)
(* Spec: one scale value of any family                                     *)
(***************************************************************************)
Init ==
    /\ dbuf = <<>>
    /\ dres = NotDecoded
    /\ scan = NoScan
    /\ enc = NoEnc
    /\ dev = NoDev
    /\ NewCycler
    /\ \E fam \in Families : New(fam)

Next ==
    \/ ConnectStart
    \/ ConnectSetupCharacteristics
    \/ ConnectSetupNotifications
    \/ ConnectIdentify
    \/ ConnectRequest
    \/ ConnectFinish
    \/ ConnectFail
    \/ CallDisconnect
    \/ \E t \in Threads : Disconnect(t)
    \/ \E m \in Monitors : MonitorSelect(m)
    \/ \E m \in Monitors : HeartbeatSelect(m)
    \/ \E m \in Monitors : HeartbeatCheck(m)
    \/ \E m \in Monitors : HeartbeatWrite(m)
    \/ \E m \in Monitors : HeartbeatResubscribe(m)
    \/ Notify
    \/ HandlerSend
    \/ CallAccessor
    \/ Receive
    \/ Tick

Spec == Init /\ [][Next]_vars

(***************************************************************************)
(* SpecPassive: one session of a passive-timeout family (Themis, AKU) in   *)
(* which the caller only connects; goroutines that can run do run, and a   *)
(* transport disconnect that is retried forever eventually succeeds        *)
(***************************************************************************)
InitPassive ==
    /\ dbuf = <<>>
    /\ dres = NotDecoded
    /\ scan = NoScan
    /\ enc = NoEnc
    /\ dev = NoDev
    /\ NewCycler
    /\ \E fam \in {"themis", "aku"} : New(fam)

\* the only call the caller makes: one Connect
ConnectOnce == chans = <<>> /\ ConnectStart

NextPassive ==
    \/ ConnectOnce
    \/ ConnectSetupCharacteristics
    \/ ConnectSetupNotifications
    \/ ConnectFinish
    \/ ConnectFail
    \/ \E t \in Threads : Disconnect(t)
    \/ \E m \in Monitors : MonitorSelect(m)
    \/ Notify
    \/ HandlerSend
    \/ Receive
    \/ Tick
    \/ LinkDrop

SpecPassive ==
    /\ InitPassive
    /\ [][NextPassive]_vars
    /\ WF_vars(\E m \in Monitors : MonitorSelect(m) \/ Disconnect(m))
    /\ SF_vars(\E m \in Monitors : DisconnectTransportOk(m))
    /\ WF_vars(HandlerSend)

(***************************************************************************)
(* SpecOnce: one scale value of any family on which the caller connects    *)
(* once and then disconnects and reads the status as it likes              *)
(***************************************************************************)
NextOnce ==
    \/ ConnectOnce
    \/ ConnectSetupCharacteristics
    \/ ConnectSetupNotifications
    \/ ConnectIdentify
    \/ ConnectRequest
    \/ ConnectFinish
    \/ ConnectFail
    \/ CallDisconnect
    \/ \E t \in Threads : Disconnect(t)
    \/ \E m \in Monitors : MonitorSelect(m)
    \/ \E m \in Monitors : HeartbeatSelect(m)
    \/ \E m \in Monitors : HeartbeatCheck(m)
    \/ \E m \in Monitors : HeartbeatWrite(m)
    \/ \E m \in Monitors : HeartbeatResubscribe(m)
    \/ Notify
    \/ HandlerSend
    \/ CallAccessor
    \/ CallCommand
    \/ CallUnsupported
    \/ Receive
    \/ Tick

SpecOnce == Init /\ [][NextOnce]_vars

(***************************************************************************)
(* SpecHeartbeat: one session of the active-heartbeat family (Lunar) in    *)
(* which the caller only connects and the link may drop; the heartbeat     *)
(* goroutine and the callback run when they can, and a transport           *)
(* disconnect that is retried forever eventually succeeds                  *)
(***************************************************************************)
InitHeartbeat ==
    /\ dbuf = <<>>
    /\ dres = NotDecoded
    /\ scan = NoScan
    /\ enc = NoEnc
    /\ dev = NoDev
    /\ NewCycler
    /\ New("lunar")

\* one step of the heartbeat goroutine m, its calls to Disconnect included
HeartbeatStep(m) ==
    \/ HeartbeatSelect(m)
    \/ HeartbeatCheck(m)
    \/ HeartbeatWrite(m)
    \/ HeartbeatResubscribe(m)
    \/ Disconnect(m)

NextHeartbeat ==
    \/ ConnectOnce
    \/ ConnectSetupCharacteristics
    \/ ConnectSetupNotifications
    \/ ConnectIdentify
    \/ ConnectRequest
    \/ ConnectFinish
    \/ ConnectFail
    \/ Disconnect(Caller)
    \/ \E m \in Monitors : HeartbeatStep(m)
    \/ Notify
    \/ HandlerSend
    \/ Receive
    \/ Tick
    \/ LinkDrop

SpecHeartbeat ==
    /\ InitHeartbeat
    /\ [][NextHeartbeat]_vars
    /\ WF_vars(\E m \in Monitors : HeartbeatStep(m))
    /\ SF_vars(\E m \in Monitors : DisconnectTransportOk(m))
    /\ WF_vars(HandlerSend)

(***************************************************************************)
(* Claims about the session (checked under Spec)                           *)
(***************************************************************************)
\* C1: Disconnect is idempotent: a Disconnect called right after a Disconnect
\* that returned nil is a no-op that ends without a panic and does not close
\* the weight update channel a second time.
C1_DisconnectIdempotent ==
    (last.op = "Disconnect" /\ last.again)
        => /\ ~(crashed.by = "caller" /\ last.ret = "pending")
           /\ \A c \in 1..Len(chans) : chans[c].closes <= 1

\* C2: within one session the weight update channel is closed at most once,
\* whichever of the explicit Disconnect, the liveness task's timeout
\* Disconnect and its Disconnect on cancellation run and however they interleave.
C2_ClosedAtMostOnce ==
    \A c \in handed : chans[c].closes <= 1

\* C3: no weight update is ever sent on a closed channel: the close comes
\* after the last send, or the send is rejected without a crash.
C3_NoSendOnClosed ==
    crashed.why # "send on closed channel"

\* C8: a notification that fails to decode is dropped: the handler pushes
\* nothing for it, leaves the status cache alone and does not crash.
C8_UndecodableDropped ==
    /\ ~(handler.bad /\ handler.pc = "send")
    /\ crashed.why # "nil status in handleNotification"

\* C9: the status accessors and AdvanceSleepTimeout tolerate an absent status:
\* called before any status was decoded they return without crashing.
C9_AccessorsTolerateNoStatus ==
    \A op \in AccessorOps : crashed.why # ("nil status in " \o op)

\* liveness goroutines that have been started and have not returned
RunningMonitors == {m \in Monitors : pc[m] \notin {"unborn", "done"}}

\* channels handed to the caller that are still open
OpenHanded == {c \in handed : chans[c].open}

\* C10: at most one session is live per scale value: at most one liveness
\* task runs and at most one channel handed to a caller is still open.
C10_OneLiveSession ==
    /\ Cardinality(RunningMonitors) <= 1
    /\ Cardinality(OpenHanded) <= 1

\* C11: a weight update channel that has been closed is never sent on and
\* never returned again: every successful Connect returns the channel it has
\* just made, one no earlier Connect returned and nobody has closed, and a
\* notification that arrives afterwards goes to that newest channel.
C11_ClosedChannelRetired ==
    [][/\ crashed'.why # "send on closed channel"
       /\ (pc[Caller] = "c_fin" /\ pc'[Caller] = "idle")
             => /\ handed' \ handed = {Len(chans)}
                /\ chans[Len(chans)].closes = 0
       /\ (handler.pc = "idle" /\ handler'.pc = "send")
             => handler'.ch = Len(chans)]_vars

\* C12: a Connect that fails in characteristic discovery or in the
\* notification set-up returns an error with the session not connected, no
\* liveness task started for it, the transport released and the cancellation
\* signalled.
C12_FailedSetupTearsDown ==
    [][(pc[Caller] = "c_fail" /\ pc'[Caller] = "idle")
          => /\ last'.ret = "err"
             /\ ~connected'
             /\ pc'[Len(chans)] = "unborn"
             /\ btDevice' = "disconnected"
             /\ ctxs'[disconnectCtx']]_vars

\* C13: a weight update is pushed onto a weight update channel only while the
\* session is Connected: not between the notification set-up and the moment
\* Connect marks the session connected, and not after Disconnect.
C13_PushOnlyWhileConnected ==
    [][\A c \in 1..Len(chans) :
          Len(chans'[c].buf) > Len(chans[c].buf) => connected]_vars

\* a step changes the queue of channel c only by appending the update the
\* callback is sending, or by handing the oldest update to the consumer
QueueStepInOrder(c) ==
    \/ chans'[c].buf = chans[c].buf
    \/ /\ handler.pc = "send"
       /\ handler.ch = c
       /\ chans'[c].buf = Append(chans[c].buf, handler.val)
       /\ handler'.pc = "idle"
    \/ /\ chans[c].buf # <<>>
       /\ chans'[c].buf = Tail(chans[c].buf)

\* in a connected session the update the callback holds can still be
\* delivered: its channel is open
PendingDeliverable == (connected /\ handler.pc = "send") => chans[handler.ch].open

\* C21: within a session the consumer receives the weight updates in the order
\* the notifications were delivered, none lost, duplicated or reordered, also
\* when more updates are pending than the channel holds: every channel changes
\* only by an append of the update being sent or by a receive of the oldest,
\* and an update waiting to be sent is never left without an open channel.
C21_UpdatesInOrderNoneLost ==
    [][/\ \A c \in 1..Len(chans) : QueueStepInOrder(c)
       /\ PendingDeliverable'
       /\ (handler.pc = "send" /\ handler'.pc = "idle")
             => Len(chans'[handler.ch].buf) = Len(chans[handler.ch].buf) + 1]_vars

LastWritten == written[Len(written)]

JustWrote(cmd) ==
    /\ written' # written
    /\ written' # <<>>
    /\ written'[Len(written')].cmd = cmd

Enabled == <<Wrote("EnableNotifications", 0, "ok")>>

Identified == Append(Enabled, Wrote("Identify", 0, "ok"))

HandshakeDone == Append(Identified, Wrote("NotificationRequest", 0, "ok"))

\* C29: in Lunar Connect the handshake runs in this order: notifications are
\* enabled, then the identify command is written, then the event-subscription
\* command; only after all three succeeded is the session marked connected
\* and the heartbeat goroutine started; a failed step is the last step, and
\* Connect then returns an error.
C29_HandshakeInOrder ==
    /\ [][family = "lunar"
            => /\ JustWrote("EnableNotifications") => written = <<>>
               /\ JustWrote("Identify") => written = Enabled
               /\ JustWrote("NotificationRequest") => written = Identified
               /\ (connected' /\ ~connected) => written = HandshakeDone
               /\ \A m \in Monitors :
                     (pc[m] = "unborn" /\ pc'[m] # "unborn")
                         => (connected' /\ written = HandshakeDone)]_vars
    /\ []((family = "lunar" /\ last.op = "Connect")
            => /\ \A i \in 1..Len(written) :
                    written[i].res = "err" => i = Len(written)
               /\ (written # <<>> /\ LastWritten.res = "err")
                    => /\ last.ret \in {"pending", "err"}
                       /\ pc[Caller] = "idle" => last.ret = "err")

\* C29 witness: the Lunar session is connected after the full handshake and
\* its heartbeat goroutine is at its first write
C29_Witness ==
    /\ family = "lunar"
    /\ connected
    /\ written = HandshakeDone
    /\ \E m \in Monitors : pc[m] = "hb_write"
    /\ lastNotified = ZeroTime

\* a step in which a command operation returned or died
CommandStep ==
    \/ last'.op = "Command" /\ (last' # last \/ written' # written)
    \/ crashed = NoCrash /\ crashed'.why = "nil status in AdvanceSleepTimeout"

\* C23: each command operation (Tare, AdvanceSleepTimeout, SetBeep) makes
\* exactly one characteristic write of its command and returns an error iff
\* that write failed; succeeding or failing, it leaves the status cache, the
\* synced flag, the connected flag and the weight update channel as they were.
C23_CommandWritesOnce ==
    [][CommandStep
         => /\ crashed' = crashed
            /\ Len(written') = 1
            /\ written'[1].cmd \in {"Tare", "AutoOff", "SetBeep"}
            /\ last'.ret = written'[1].res
            /\ UNCHANGED <<status, synced, connected, weightUpdateChan, chans>>]_vars

\* C24: calling an operation the vendor implementation does not support
\* returns an error to the caller: it neither crashes the process nor
\* reports success.
C24_UnsupportedReturnsError ==
    /\ crashed.why # "implement me"
    /\ last.op \in UnsupportedOps => last.ret = "err"

(***************************************************************************)
(* Claims about the passive-timeout liveness monitor (under SpecPassive)   *)
(***************************************************************************)
\* the session is Connected, the device has gone silent and the grace period
\* has elapsed since the last notification
SilentPastGrace == connected /\ ~linkUp /\ Stale

\* the session is Disconnected and its weight update channel is closed
TornDown == ~connected /\ weightUpdateChan # Nil /\ ~chans[weightUpdateChan].open

\* C4: in a Connected passive-timeout session, once no notification has
\* arrived for longer than the grace period, the session eventually becomes
\* Disconnected and the weight update channel is closed, with no caller command.
C4_SilenceLeadsToDisconnect == SilentPastGrace ~> TornDown

\* the cancellation signal of the session has fired while its liveness
\* goroutine is running
CancelledWhileRunning == CtxDone /\ RunningMonitors # {}

\* every liveness goroutine has returned and the session is Disconnected
TaskEnded == RunningMonitors = {} /\ ~connected

\* C22: once a session's cancellation signal has fired, its liveness task
\* eventually terminates (no further timeout check) and the session ends
\* Disconnected.
C22_CancelStopsTask == CancelledWhileRunning ~> TaskEnded

\* in a connected session the callback has just been handed a notification
\* that does not decode, and has gone on to its channel send
UndecodableArrives ==
    /\ family # "lunar"
    /\ connected
    /\ handler.pc = "idle"
    /\ handler'.pc = "send"
    /\ handler'.bad

\* C28: in the passive-timeout families the last-notification timestamp is
\* refreshed only by a notification that decodes successfully: an undecodable
\* notification leaves the timestamp as it was, so a stream of them does not
\* keep the session alive past the grace period.
C28_UndecodableKeepsTimestamp ==
    [][UndecodableArrives => lastNotified' = lastNotified]_vars

(***************************************************************************)
(* Claims about the active-heartbeat liveness task (under SpecHeartbeat)   *)
(***************************************************************************)
\* the session is Connected and the link has dropped: every heartbeat write
\* fails from here on
HeartbeatsFailing == connected /\ ~linkUp

\* C14: in a Connected active-heartbeat session, once every heartbeat write
\* fails, the session is eventually disconnected and its weight update channel
\* closed, whether or not a status message was ever received.
C14_FailedHeartbeatsDisconnect == HeartbeatsFailing ~> TornDown

\* the messages the notifications of a Lunar session decode to
LunarDecoded ==
    {DecodeNotification(b).msg :
        b \in {x \in NotifBufs("lunar") : DecodeNotification(x).kind = "ok"}}

\* the callback took a WeightMessage and is about to push its value
TookWeight == handler.pc = "idle" /\ handler'.pc = "send"

\* the callback, with a weight update in hand, pushed it or died
PushAttempt ==
    /\ handler.pc = "send"
    /\ handler' # handler \/ (crashed = NoCrash /\ crashed'.by = "handler")

\* C27: Lunar notification dispatch has exactly these effects per decoded
\* message: a WeightMessage pushes one update with its value and refreshes the
\* last-notification timestamp, leaving the status cache and the synced flag;
\* a StatusMessage replaces the status cache and sets synced, pushing nothing;
\* a DeviceInfoMessage or UnhandledMessage pushes nothing and changes neither
\* cache, synced flag nor timestamp.
C27_LunarDispatchEffects ==
    [][family = "lunar"
         => /\ TookWeight
                 => /\ \E msg \in LunarDecoded :
                         msg.type = "Weight" /\ handler'.val = msg.Weight
                    /\ UNCHANGED <<status, synced, lastNotified, chans>>
            /\ PushAttempt
                 => /\ crashed' = crashed
                    /\ chans'[handler.ch].buf = Append(chans[handler.ch].buf, handler.val)
                    /\ lastNotified' = 0
                    /\ UNCHANGED <<status, synced>>
            /\ (status' # status \/ synced' # synced)
                 => /\ \E msg \in LunarDecoded :
                         msg.type = "Status" /\ status' = [ptr |-> "val", v |-> msg]
                    /\ synced'
                    /\ UNCHANGED <<handler, lastNotified, chans>>
            /\ \A c \in 1..Len(chans) :
                  Len(chans'[c].buf) > Len(chans[c].buf) => PushAttempt
            /\ lastNotified' # lastNotified
                 => (PushAttempt \/ lastNotified' = lastNotified + 1)]_vars

(***************************************************************************)
(* SpecCycler: the settings cycler called by any number of goroutines; the *)
(* manager's mutex makes each call one step                                *)
(***************************************************************************)
\* current values the cycler's user may hold: a uint16
CyclerInputs == 0..MaxCurrent \cup {255, 256, MaxUint16}

InitCycler ==
    /\ dbuf = <<>>
    /\ dres = NotDecoded
    /\ scan = NoScan
    /\ enc = NoEnc
    /\ dev = NoDev
    /\ mgr = newAutoOffSettingsManager
    /\ cyN \in CyclerInputs
    /\ cyRet = NoReturn
    /\ New("themis")

\* (variant) Next that advances the index before it reads the element
CallNext_AdvanceFirst ==
    /\ cyRet' = [cyRet EXCEPT !.op = "Next",
                               !.next = At(mgr.settings, (mgr.index + 1) % Len(mgr.settings))]
    /\ mgr' = [mgr EXCEPT !.index = (mgr.index + 1) % Len(mgr.settings)]
    /\ UNCHANGED <<dbuf, dres, cyN, scan, sessionVars, enc, dev>>

\* m.Next(): return settings[index] and advance the index, under the write lock
CallNext ==
    /\ cyRet' = [cyRet EXCEPT !.op = "Next", !.next = At(mgr.settings, mgr.index)]
    /\ mgr' = [mgr EXCEPT !.index = (mgr.index + 1) % Len(mgr.settings)]
    /\ UNCHANGED <<dbuf, dres, cyN, scan, sessionVars, enc, dev>>

\* m.NextWithInt(n) with the user's current value, under the read lock
CallNextWithInt ==
    /\ cyRet' = [cyRet EXCEPT !.op = "NextWithInt", !.withInt = NextWithInt(mgr, cyN)]
    /\ UNCHANGED <<dbuf, dres, mgr, cyN, scan, sessionVars, enc, dev>>

NextCycler == CallNext \/ CallNextWithInt

SpecCycler == InitCycler /\ [][NextCycler]_vars

(***************************************************************************)
(* Claims about the settings cycler (checked under SpecCycler)             *)
(***************************************************************************)
\* the legal settings above n
LegalAbove(n) == {v \in {5, 10, 15, 20, 30} : v > n}

\* C16: NextWithInt(n) returns the smallest legal setting of {5,10,15,20,30}
\* strictly greater than n, and the minimum 5 when n is at or above the
\* maximum 30.
C16_NextGreaterSetting ==
    cyRet.withInt # 0
        => IF cyN >= 30 THEN cyRet.withInt = 5
           ELSE /\ cyRet.withInt \in LegalAbove(cyN)
                /\ \A v \in LegalAbove(cyN) : cyRet.withInt <= v

\* C16 witness: NextWithInt(30) returned 5
C16_Witness == cyN = 30 /\ cyRet.op = "NextWithInt" /\ cyRet.withInt = 5

\* C17: NextWithInt is idempotent for a current value that does not advance:
\* every call returns the setting the first call returned, however many Next
\* and NextWithInt calls came in between, and a NextWithInt call leaves the
\* manager (its rotation index included) as it was.
C17_NextWithIntIdempotent ==
    [][/\ cyRet.withInt # 0 => cyRet'.withInt = cyRet.withInt
       /\ cyRet'.op = "NextWithInt" => mgr' = mgr]_vars

\* C17 witness: NextWithInt has returned after Next moved the rotation index
C17_Witness ==
    /\ cyRet.op = "NextWithInt"
    /\ cyRet.next # 0
    /\ mgr.index = 3
    /\ cyN = 10
    /\ cyRet.withInt = 15

\* the setting that follows v in the fixed list, 0 standing for no call yet
CycleSucc(v) ==
    CASE v = 0 -> 5
      [] v = 5 -> 10
      [] v = 10 -> 15
      [] v = 15 -> 20
      [] v = 20 -> 30
      [] OTHER -> 5

\* C30: successive calls of Next return 5, 10, 15, 20, 30, 5, ...: the k-th
\* call returns the element at position (k-1) mod 5; the rotation index stays
\* within 0..4; calls of concurrent callers are serialized, so each call
\* returns the setting after the one the previous call returned and moves
\* the index by one position.
C30_NextRotates ==
    /\ [](mgr.index \in 0..4)
    /\ [](cyRet.next # 0 => cyRet.next = At(<<5, 10, 15, 20, 30>>, (mgr.index + 4) % 5))
    /\ [][(cyRet'.next # cyRet.next \/ mgr' # mgr)
            => /\ cyRet'.next = CycleSucc(cyRet.next)
               /\ mgr'.index = (mgr.index + 1) % 5]_vars

\* C30 witness: the fifth call of a round returned 30 and the index wrapped
C30_Witness == cyRet.op = "Next" /\ cyRet.next = 30 /\ mgr.index = 0

(***************************************************************************)
(* SpecScan: one call of Scan with the advertisements that arrive while it *)
(* runs; the handler's mutex makes each advertisement one step             *)
(***************************************************************************)
\* device names are short strings over two letters; the empty name included
NameChars == {1, 2}

RECURSIVE NamesOfLen(_)
NamesOfLen(n) ==
    IF n = 0 THEN {<<>>}
    ELSE {Append(s, c) : s \in NamesOfLen(n - 1), c \in NameChars}

Names == UNION {NamesOfLen(n) : n \in 0..MaxNameLen}

Addrs == 1..MaxAddrs

RssiSamples == {-60, -40}

\* what the registry may hold when Scan is called: nothing, one prefix, two
PrefixSets == {{}, {<<1>>}, {<<1>>, <<2, 1>>}}

\* strings.HasPrefix(s, prefix)
HasPrefix(s, prefix) ==
    Len(s) >= Len(prefix) /\ SubSeq(s, 1, Len(prefix)) = prefix

FoundDevice(ad) == [Name |-> ad.Name, Address |-> ad.Address, RSSI |-> ad.RSSI]

\* (variant) the handler without the exists test: a later advertisement
\* replaces the entry of its address
ScanHandler_Overwrites(found, prefixes, ad) ==
    IF ad.Name = <<>> THEN found
    ELSE IF \E p \in prefixes : HasPrefix(ad.Name, p)
    THEN [a \in DOMAIN found \cup {ad.Address} |->
             IF a = ad.Address THEN FoundDevice(ad) ELSE found[a]]
    ELSE found

\* the scan handler: the map after one advertisement
ScanHandler(found, prefixes, ad) ==
    IF ad.Name = <<>> THEN found
    ELSE IF \E p \in prefixes : HasPrefix(ad.Name, p)
    THEN IF ad.Address \in DOMAIN found THEN found
         ELSE [a \in DOMAIN found \cup {ad.Address} |->
                  IF a = ad.Address THEN FoundDevice(ad) ELSE found[a]]
    ELSE found

\* the orders in which ranging over a map may yield its keys
KeyOrders(found) ==
    {o \in [1..Cardinality(DOMAIN found) -> DOMAIN found] :
        \A i, j \in DOMAIN o : o[i] = o[j] => i = j}

InitScan ==
    /\ dbuf = <<>>
    /\ dres = NotDecoded
    /\ NewCycler
    /\ New("themis")
    /\ \E registered \in PrefixSets : scan = [NoScan EXCEPT !.prefixes = registered]
    /\ enc = NoEnc
    /\ dev = NoDev

\* TryEnableAdapter; getRegisteredPrefixes; start the blocking scan
ScanStart ==
    /\ scan.pc = "idle"
    /\ \E adapter \in {"ok", "err"} :
         IF adapter = "err" \/ scan.prefixes = {}
         THEN scan' = [scan EXCEPT !.pc = "done", !.ret = "err"]
         ELSE scan' = [scan EXCEPT !.pc = "scanning"]
    /\ UNCHANGED <<dbuf, dres, cyclerVars, sessionVars, enc, dev>>

\* the adapter hands one advertisement to the handler
Advertise ==
    /\ scan.pc = "scanning"
    /\ Len(scan.adverts) < MaxAdverts
    /\ \E name \in Names, addr \in Addrs, rssi \in RssiSamples :
         LET ad == [Name |-> name, Address |-> addr, RSSI |-> rssi]
         IN scan' = [scan EXCEPT
                        !.adverts = Append(@, ad),
                        !.foundDevices = ScanHandler(@, scan.prefixes, ad)]
    /\ UNCHANGED <<dbuf, dres, cyclerVars, sessionVars, enc, dev>>

\* the timeout fires: StopScan, wait for the scan goroutine, return its error
\* or the values of the map in the order the range yields them
ScanFinish ==
    /\ scan.pc = "scanning"
    /\ \E scanErr \in {"ok", "err"} :
         IF scanErr = "err"
         THEN scan' = [scan EXCEPT !.pc = "done", !.ret = "err"]
         ELSE \E o \in KeyOrders(scan.foundDevices) :
                scan' = [scan EXCEPT
                            !.pc = "done",
                            !.ret = "ok",
                            !.results = [i \in DOMAIN o |-> scan.foundDevices[o[i]]]]
    /\ UNCHANGED <<dbuf, dres, cyclerVars, sessionVars, enc, dev>>

NextScan == ScanStart \/ Advertise \/ ScanFinish

SpecScan == InitScan /\ [][NextScan]_vars

(***************************************************************************)
(* SpecScanOne: one call of ScanForOne.  The handler runs on the adapter's *)
(* goroutine until StopScan, so advertisements may still arrive after the  *)
(* first match cancelled the context                                       *)
(***************************************************************************)
\* TryEnableAdapter; getRegisteredPrefixes; start the blocking scan
ScanForOneStart ==
    /\ scan.pc = "idle"
    /\ \E adapter \in {"ok", "err"} :
         IF adapter = "err" \/ scan.prefixes = {}
         THEN scan' = [scan EXCEPT !.pc = "one_done", !.ret = "err"]
         ELSE scan' = [scan EXCEPT !.pc = "one_scanning"]
    /\ UNCHANGED <<dbuf, dres, cyclerVars, sessionVars, enc, dev>>

\* the handler of ScanForOne: a named advertisement that matches a prefix is
\* stored in found and cancels the context
ScanForOneHandler(sc, ad) ==
    IF ad.Name = <<>> THEN sc
    ELSE IF \E p \in sc.prefixes : HasPrefix(ad.Name, p)
    THEN [sc EXCEPT !.found = FoundDevice(ad), !.ctx = IF @ = "live" THEN "canceled" ELSE @]
    ELSE sc

\* the adapter hands one advertisement to the handler
AdvertiseOne ==
    /\ scan.pc = "one_scanning"
    /\ scan.seen < MaxAdverts
    /\ \E name \in Names, addr \in Addrs, rssi \in RssiSamples :
         LET ad == [Name |-> name, Address |-> addr, RSSI |-> rssi]
         IN scan' = [ScanForOneHandler(scan, ad) EXCEPT !.seen = @ + 1]
    /\ UNCHANGED <<dbuf, dres, cyclerVars, sessionVars, enc, dev>>

\* the duration elapses before any match cancelled the context
ScanForOneDeadline ==
    /\ scan.pc = "one_scanning"
    /\ scan.ctx = "live"
    /\ scan' = [scan EXCEPT !.ctx = "deadline"]
    /\ UNCHANGED <<dbuf, dres, cyclerVars, sessionVars, enc, dev>>

\* <-ctx.Done(); StopScan; wg.Wait; return the scan error, or &found: ctx.Err()
\* is Canceled or DeadlineExceeded, which the last test lets through
ScanForOneFinish ==
    /\ scan.pc = "one_scanning"
    /\ scan.ctx # "live"
    /\ \E scanErr \in {"ok", "err"} :
         IF scanErr = "err"
         THEN scan' = [scan EXCEPT !.pc = "one_done", !.ret = "err"]
         ELSE scan' = [scan EXCEPT !.pc = "one_done", !.ret = "ok",
                                   !.results = <<scan.found>>]
    /\ UNCHANGED <<dbuf, dres, cyclerVars, sessionVars, enc, dev>>

NextScanOne == ScanForOneStart \/ AdvertiseOne \/ ScanForOneDeadline \/ ScanForOneFinish

SpecScanOne == InitScan /\ [][NextScanOne]_vars

(***************************************************************************)
(* Claims about Scan (checked under SpecScan)                              *)
(***************************************************************************)
\* the advertisement qualifies: it has a name that starts with a registered
\* prefix
Qualifies(ad) ==
    ad.Name # <<>> /\ \E p \in scan.prefixes : HasPrefix(ad.Name, p)

\* positions in the received sequence of the advertisements from address a
AdvertsFrom(a) == {i \in 1..Len(scan.adverts) : scan.adverts[i].Address = a}

QualifyingFrom(a) == {i \in AdvertsFrom(a) : Qualifies(scan.adverts[i])}

First(S) == CHOOSE i \in S : \A j \in S : i <= j

Returned == scan.pc = "done" /\ scan.ret = "ok"

\* what the claim says whichever advertisement an entry stands for: one
\* entry per address, every name non-empty and with a registered prefix
ResultsFiltered ==
    /\ \A i, j \in DOMAIN scan.results :
          scan.results[i].Address = scan.results[j].Address => i = j
    /\ \A i \in DOMAIN scan.results :
          /\ scan.results[i].Name # <<>>
          /\ \E p \in scan.prefixes : HasPrefix(scan.results[i].Name, p)

\* C26 as stated: the list Scan returns holds at most one entry per device
\* address, namely the first advertisement seen for that address; every
\* entry's name starts with a registered prefix; advertisements with an empty
\* name never appear.
C26_FirstAdvertisementKept ==
    Returned
        => /\ ResultsFiltered
           /\ \A i \in DOMAIN scan.results :
                 LET a == scan.results[i].Address
                 IN /\ AdvertsFrom(a) # {}
                    /\ scan.results[i] = FoundDevice(scan.adverts[First(AdvertsFrom(a))])

\* C26, amended: the list Scan returns holds at most one entry per device
\* address, namely the first advertisement seen for that address that has a
\* non-empty name starting with a registered prefix; every entry's name
\* starts with a registered prefix; advertisements with an empty name never
\* appear.
C26_FirstQualifyingKept ==
    Returned
        => /\ ResultsFiltered
           /\ \A i \in DOMAIN scan.results :
                 LET a == scan.results[i].Address
                 IN /\ QualifyingFrom(a) # {}
                    /\ scan.results[i]
                         = FoundDevice(scan.adverts[First(QualifyingFrom(a))])

\* C26 witness: Scan returned one entry for an address that advertised twice
\* with qualifying names, the two advertisements differing in name and in
\* signal strength
C26_Witness ==
    /\ Returned
    /\ Len(scan.adverts) = 2
    /\ scan.adverts[1].Address = scan.adverts[2].Address
    /\ Qualifies(scan.adverts[1])
    /\ Qualifies(scan.adverts[2])
    /\ scan.adverts[1].Name # scan.adverts[2].Name
    /\ scan.adverts[1].RSSI # scan.adverts[2].RSSI
    /\ Len(scan.results) = 1

(***************************************************************************)
(* SpecDecode: the three decoders applied to bounded byte buffers          *)
(***************************************************************************)
ByteSamples == {0, 1, 5, 12, HeaderPrefix2, HeaderPrefix1}

\* every buffer over ByteSamples up to MaxGarbageLen bytes
GarbageBuffers == UNION {[1..n -> ByteSamples] : n \in 0..MaxGarbageLen}

\* what follows the length byte: nothing, or an event-type byte and filler
FrameBodies ==
    {<<>>} \cup {<<t>> \o Fill(n - 1, 2) : n \in 1..MaxBodyLen, t \in {0, 5}}

\* EF DD <cmd> <L> <body>, optionally after a stray leading byte
LunarFrames ==
    {pre \o <<HeaderPrefix1, HeaderPrefix2, cmd, L>> \o body :
        pre \in {<<>>, <<0>>}, cmd \in {1, 7, 8, 12}, L \in 0..MaxDeclLen,
        body \in FrameBodies}

\* grams * 100 carried by the records: each of the three bytes matters
GramsSamples == {0, 150, 66051, 16777215}

ThemisBuffers ==
    {ThemisRecord(n, sign, grams) :
        n \in {0, 1, ThemisFrameLen - 1, ThemisFrameLen, ThemisFrameLen + 1},
        sign \in {0, 43, 45}, grams \in GramsSamples}

\* raw weight values: each of the four bytes matters; the outer bytes stay
\* below 128 so that the value fits TLC's integers in either byte order
RawSamples == {<<0, 0, 0, 0>>, <<102, 8, 0, 0>>, <<1, 2, 3, 4>>, <<127, 255, 255, 127>>}

\* weight event payloads: raw value, unit byte, flag byte, and up to
\* MaxExtra bytes more (or cut short to five bytes)

WeightPayloads ==
    {raw \o <<unit, flags>> \o Fill(extra, 7) :
        raw \in RawSamples, unit \in 0..5, flags \in 0..9, extra \in 0..MaxExtra}
    \cup {raw \o <<2>> : raw \in RawSamples}

AkuBuffers == {AkuFrame(n, type, b3) : n \in 0..7, type \in {0, 1}, b3 \in {0, 16}}

\* every command frame the Lunar encoder builds
LunarCommandFrames ==
    {BuildIdentifyCommand, BuildNotificationRequestCommand, BuildTareCommand,
     BuildGetStatusCommand}
        \cup {LunarBuildAutoOffCommand(s) : s \in AutoOffSettingValues}

\* bytes 1..4 of a status payload: each with and without its top bit
StatusBytes == {0, 5, 127, 128, 255}

\* status payloads: the first n bytes of a 13-byte payload
StatusPayloads ==
    {SubSeq(<<9, b1, b2, b3, b4, 0, 0, 1, 0, 2, 30, 0, 0>>, 1, n) :
        n \in 0..13, b1 \in StatusBytes, b2 \in StatusBytes, b3 \in StatusBytes,
        b4 \in StatusBytes}

DecodeInputs ==
    GarbageBuffers \cup LunarFrames \cup ThemisBuffers \cup AkuBuffers \cup WeightPayloads
        \cup LunarCommandFrames \cup StatusPayloads

InitDecode ==
    /\ dbuf \in DecodeInputs
    /\ dres = NotDecoded
    /\ scan = NoScan
    /\ enc = NoEnc
    /\ dev = NoDev
    /\ NewCycler
    /\ New("lunar")

DoDecodeLunar ==
    /\ dres.fam = "none"
    /\ dres' = [fam |-> "lunar", r |-> DecodeNotification(dbuf)]
    /\ UNCHANGED <<dbuf, sessionVars, cyclerVars, scan, enc, dev>>

DoDecodeAku ==
    /\ dres.fam = "none"
    /\ dres' = [fam |-> "aku", r |-> AkuDecodeStatusUpdate(dbuf)]
    /\ UNCHANGED <<dbuf, sessionVars, cyclerVars, scan, enc, dev>>

DoDecodeThemis ==
    /\ dres.fam = "none"
    /\ dres' = [fam |-> "themis", r |-> ThemisDecodeStatusUpdate(dbuf)]
    /\ UNCHANGED <<dbuf, sessionVars, cyclerVars, scan, enc, dev>>

\* the weight event decoder applied to a buffer that is an event payload
DoDecodeWeight ==
    /\ dres.fam = "none"
    /\ dbuf \in WeightPayloads
    /\ dres' = [fam |-> "weight", r |-> decodeWeight(dbuf)]
    /\ UNCHANGED <<dbuf, sessionVars, cyclerVars, scan, enc, dev>>

\* DecodeStatusMessage of package comms applied to a status payload
DoDecodeStatus ==
    /\ dres.fam = "none"
    /\ dbuf \in StatusPayloads
    /\ dres' = [fam |-> "status", r |-> DecodeStatusMessage(dbuf)]
    /\ UNCHANGED <<dbuf, sessionVars, cyclerVars, scan, enc, dev>>

\* DecodeStatusMessage of package decode applied to a status payload
DoDecodeStatusDecode ==
    /\ dres.fam = "none"
    /\ dbuf \in StatusPayloads
    /\ dres' = [fam |-> "decode.status", r |-> decode_DecodeStatusMessage(dbuf)]
    /\ UNCHANGED <<dbuf, sessionVars, cyclerVars, scan, enc, dev>>

\* leading bytes the transport may deliver before a frame: none of them
\* holds EF DD, some end in EF or begin with DD
PadPrefixes ==
    {<<>>, <<0>>, <<HeaderPrefix1>>, <<HeaderPrefix2, HeaderPrefix1>>,
     <<HeaderPrefix1, 0, HeaderPrefix2>>, <<12, HeaderPrefix1, HeaderPrefix1>>}

\* trailing bytes: nothing, stray bytes, the beginning of the next frame
PadSuffixes ==
    {<<>>, <<0>>, <<HeaderPrefix2>>, <<HeaderPrefix1, HeaderPrefix2>>,
     <<HeaderPrefix1, HeaderPrefix2, 8, 9>>}

\* the Lunar decoder applied to a frame (a buffer that begins with EF DD) that
\* it decodes without error, delivered between leading and trailing bytes
DoDecodePadded ==
    /\ dres.fam = "none"
    /\ IndexHeader(dbuf) = 0
    /\ DecodeNotification(dbuf).kind = "ok"
    /\ \E pre \in PadPrefixes, suf \in PadSuffixes :
         dres' = [fam |-> "lunar.padded", r |-> DecodeNotification(pre \o dbuf \o suf),
                  pre |-> pre, suf |-> suf]
    /\ UNCHANGED <<dbuf, sessionVars, cyclerVars, scan, enc, dev>>

NextDecode ==
    \/ DoDecodePadded
    \/ DoDecodeLunar \/ DoDecodeAku \/ DoDecodeThemis \/ DoDecodeWeight
    \/ DoDecodeStatus \/ DoDecodeStatusDecode

SpecDecode == InitDecode /\ [][NextDecode]_vars

(***************************************************************************)
(* Claims about the decoders (checked under SpecDecode)                    *)
(***************************************************************************)
\* the frame that starts at the first EF DD of the buffer (empty if none)
HeaderFrame(data) ==
    IF IndexHeader(data) = -1 THEN <<>>
    ELSE GoSlice(data, IndexHeader(data), Len(data))

\* C5: Lunar DecodeNotification is total: on every byte buffer it returns a
\* decoded message or an error and never indexes or slices out of bounds.
C5_LunarDecodeTotal ==
    dres.fam = "lunar" => dres.r.kind \in {"ok", "err"}

\* C6: every buffer shorter than the family's minimum frame length (AKU: fewer
\* than 6 bytes, Themis: any length other than 20, Lunar: fewer than 4 bytes
\* from the header on) makes decode report failure without reading past the end.
C6_ShortBufferFails ==
    /\ (dres.fam = "aku" /\ Len(dbuf) < 6) => dres.r.kind = "err"
    /\ (dres.fam = "themis" /\ Len(dbuf) # ThemisFrameLen) => dres.r.kind = "err"
    /\ (dres.fam = "lunar" /\ IndexHeader(dbuf) # -1 /\ Len(HeaderFrame(dbuf)) < 4)
          => dres.r.kind = "err"

\* the buffer holds a header and a length byte L, but fewer than L+5 bytes
\* remain from the header onward
DeclaresMoreThanHeld(data) ==
    /\ Len(HeaderFrame(data)) >= 4
    /\ Len(HeaderFrame(data)) < At(HeaderFrame(data), 3) + 5

\* C7: a Lunar buffer whose length byte L declares a frame of L+5 bytes while
\* fewer than L+5 bytes remain from the header onward makes DecodeNotification
\* return the length-mismatch error and no message.
C7_LengthMismatchReported ==
    (dres.fam = "lunar" /\ DeclaresMoreThanHeld(dbuf))
        => (dres.r.kind = "err" /\ dres.r.err = "message frame length mismatch")

\* C7 witness: a frame exactly one byte short of its declared length was
\* decoded and rejected with the length-mismatch error
C7_Witness ==
    /\ dres.fam = "lunar"
    /\ Len(HeaderFrame(dbuf)) >= 4
    /\ Len(HeaderFrame(dbuf)) = At(HeaderFrame(dbuf), 3) + 4
    /\ dres.r.kind = "err"
    /\ dres.r.err = "message frame length mismatch"

\* the frame holds its header, a length byte L and at least L+5 bytes
ConsistentFrame(data) ==
    /\ Len(HeaderFrame(data)) >= 4
    /\ Len(HeaderFrame(data)) >= At(HeaderFrame(data), 3) + 5

\* the command id is none of 7, 8, 12, or it is 12 with an inner event type
\* other than the weight event
Unrecognized(data) ==
    \/ At(HeaderFrame(data), 2) \notin {7, 8, 12}
    \/ At(HeaderFrame(data), 2) = 12 /\ At(HeaderFrame(data), 4) # 5

\* C18: every Lunar frame of consistent length with an unrecognized command
\* id, or command 12 with an unrecognized inner event type, decodes without
\* error to an UnhandledMessage carrying the command id (and the inner type
\* when nested), so that the handler goes on to the next frame.
C18_UnrecognizedIsUnhandled ==
    (dres.fam = "lunar" /\ ConsistentFrame(dbuf) /\ Unrecognized(dbuf))
        => /\ dres.r.kind = "ok"
           /\ dres.r.msg.type = "Unhandled"
           /\ dres.r.msg.CommandID = At(HeaderFrame(dbuf), 2)
           /\ dres.r.msg.Nested = (At(HeaderFrame(dbuf), 2) = 12)
           /\ dres.r.msg.Nested => dres.r.msg.MsgType = At(HeaderFrame(dbuf), 4)

RECURSIVE Pow10(_)
Pow10(d) == IF d = 0 THEN 1 ELSE 10 * Pow10(d - 1)

\* the little-endian 32-bit integer in bytes 0..3, negated when bit 1 of the
\* flag byte (byte 5) is set
SignedRaw(payload) ==
    (IF (At(payload, 5) \div 2) % 2 = 1 THEN -1 ELSE 1)
        * (At(payload, 0) + At(payload, 1) * 256 + At(payload, 2) * 256 * 256
           + At(payload, 3) * 256 * 256 * 256)

\* C19: a weight event payload of at least 6 bytes with unit byte d in 1..4
\* decodes to the little-endian integer of bytes 0..3 divided by 10^d,
\* negated iff bit 1 of the flag byte is set, stable iff bit 0 of the flag
\* byte is clear, with type = flag byte >> 2.
C19_WeightDecoded ==
    (dres.fam = "weight" /\ Len(dbuf) >= 6 /\ At(dbuf, 4) \in 1..4)
        => /\ dres.r.kind = "ok"
           /\ dres.r.msg.Weight.num = SignedRaw(dbuf)
           /\ dres.r.msg.Weight.den = Pow10(At(dbuf, 4))
           /\ dres.r.msg.IsStable = (At(dbuf, 5) % 2 = 0)
           /\ dres.r.msg.Type = At(dbuf, 5) \div 4

\* C19 witness: the payload for net, stable, +21.50 g with two decimals was
\* decoded to {21.50, Net, stable}
C19_Witness ==
    /\ dbuf = <<102, 8, 0, 0, 2, 0>>
    /\ dres.fam = "weight"
    /\ dres.r.kind = "ok"
    /\ dres.r.msg.Weight = Rat(2150, 100)
    /\ dres.r.msg.Type = 0
    /\ dres.r.msg.IsStable

\* C20: for every 20-byte Themis record GramsWeight * 100 is the big-endian
\* 24-bit integer of bytes 7..9, negated iff byte 6 is ASCII '-' (0x2D).
C20_ThemisGrams ==
    (dres.fam = "themis" /\ Len(dbuf) = 20)
        => /\ dres.r.kind = "ok"
           /\ dres.r.msg.GramsWeight.num
                 = (IF At(dbuf, 6) = 45 THEN -1 ELSE 1)
                     * (At(dbuf, 7) * 65536 + At(dbuf, 8) * 256 + At(dbuf, 9))
           /\ dres.r.msg.GramsWeight.den = 100

\* C20 witness: sign byte '-' with magnitude 150 was decoded to -1.50
C20_Witness ==
    /\ dres.fam = "themis"
    /\ Len(dbuf) = 20
    /\ At(dbuf, 6) = 45
    /\ At(dbuf, 7) = 0 /\ At(dbuf, 8) = 0 /\ At(dbuf, 9) = 150
    /\ dres.r.kind = "ok"
    /\ dres.r.msg.GramsWeight = Rat(-150, 100)

\* C25: encode and decode of the Lunar family agree on framing: every command
\* frame the encoder builds (identify, event subscription, tare, get status,
\* auto-off) is accepted by DecodeNotification, which returns without error a
\* message that carries the command id of the frame.
C25_CommandFramesDecode ==
    (dbuf \in LunarCommandFrames /\ dres.fam = "lunar")
        => /\ dres.r.kind = "ok"
           /\ dres.r.msg.type = "Unhandled"
           /\ dres.r.msg.CommandID = At(dbuf, 2)

(***************************************************************************)
(* The command builders applied to bounded inputs (SpecEncode)             *)
(***************************************************************************)
\* bytes the payloads are made of: small ones and ones whose sums pass 255
EncodeBytes == {0, 1, 128, 255}

EncodePayloads == UNION {[1..n -> EncodeBytes] : n \in 0..MaxPayloadLen}

\* a uint8 argument (message type, setting, cached byte) and a payload
InitEncode ==
    /\ dbuf = <<>>
    /\ dres = NotDecoded
    /\ scan = NoScan
    /\ dev = NoDev
    /\ NewCycler
    /\ New("lunar")
    /\ \E a \in Byte, p \in EncodePayloads :
         enc = [fn |-> "none", arg |-> a, payload |-> p, out |-> <<>>]

Encoded(f, result) ==
    /\ enc.fn = "none"
    /\ enc' = [enc EXCEPT !.fn = f, !.out = result]
    /\ UNCHANGED <<dbuf, dres, sessionVars, cyclerVars, scan, dev>>

\* Encode(messageType, payload) of the Lunar family
DoEncode == Encoded("Encode", Encode(enc.arg, enc.payload))

\* the Themis tare command, a package-level frame
DoThemisTare == Encoded("ThemisTareCommand", ThemisTareCommand)

\* the Themis BuildAutoOffCommand(setting)
DoThemisAutoOff == Encoded("ThemisBuildAutoOffCommand", ThemisBuildAutoOffCommand(enc.arg))

\* the Themis BuildChangeBeepCommand(beep), beep = (arg = 1)
DoThemisBeep ==
    /\ enc.arg \in {0, 1}
    /\ Encoded("BuildChangeBeepCommand", BuildChangeBeepCommand(enc.arg = 1))

\* the timeout the Lunar AdvanceSleepTimeout requests for a cached setting byte
DoLunarSleepTimeout == Encoded("LunarSleepTimeout", LunarSleepTimeout(enc.arg))

NextEncode ==
    DoEncode \/ DoThemisTare \/ DoThemisAutoOff \/ DoThemisBeep \/ DoLunarSleepTimeout

SpecEncode == InitEncode /\ [][NextEncode]_vars

(***************************************************************************)
(* Claims about the command builders (checked under SpecEncode)            *)
(***************************************************************************)
\* the legal Themis auto-off settings, in minutes
ThemisLegalSettings == {AutoOffSettings[i] : i \in DOMAIN AutoOffSettings}

ThemisFrameBuilt ==
    \/ enc.fn \in {"ThemisTareCommand", "BuildChangeBeepCommand"}
    \/ enc.fn = "ThemisBuildAutoOffCommand" /\ enc.arg \in ThemisLegalSettings

\* the XOR of the first n bytes of f, bit by bit: bit b of the result is the
\* parity of the number of bytes that have bit b set
XorOfFirst(f, n) ==
    LET Pow2[b \in 0..7] == IF b = 0 THEN 1 ELSE 2 * Pow2[b - 1]
        Ones(b) == Cardinality({i \in 1..n : (f[i] \div Pow2[b]) % 2 = 1})
        Val[b \in 0..8] == IF b = 8 THEN 0 ELSE (Ones(b) % 2) * Pow2[b] + Val[b + 1]
    IN Val[0]

\* C31: every Themis command frame (tare, auto-off with a legal setting, beep
\* on/off) is six bytes long and its last byte is the XOR of the first five.
C31_ThemisFrameChecksum ==
    ThemisFrameBuilt
        => /\ Len(enc.out) = 6
           /\ enc.out[6] = XorOfFirst(enc.out, 5)

\* C31 witness: the auto-off frame for 30 minutes was built
C31_Witness ==
    /\ enc.fn = "ThemisBuildAutoOffCommand"
    /\ enc.arg = 30
    /\ enc.out = <<3, 10, 3, 0, 30, 20>>

\* the sum, modulo 256, of the payload bytes whose 0-based index has parity par
SumOfParity(payload, par) ==
    LET Idx == {i \in 1..Len(payload) : (i - 1) % 2 = par}
        Sum[n \in 0..Len(payload)] ==
            IF n = 0 THEN 0
            ELSE Sum[n - 1] + (IF n \in Idx THEN payload[n] ELSE 0)
    IN Sum[Len(payload)] % 256

\* C32: Encode(messageType, payload) is the header EF DD, the message type,
\* the payload unchanged, then the byte sum of the even-indexed payload bytes
\* and the byte sum of the odd-indexed ones (each modulo 256); its length is
\* len(payload) + 5.
C32_EncodeLayout ==
    enc.fn = "Encode"
        => LET n == Len(enc.payload)
           IN /\ Len(enc.out) = n + 5
              /\ enc.out[1] = 239 /\ enc.out[2] = 221
              /\ enc.out[3] = enc.arg
              /\ SubSeq(enc.out, 4, n + 3) = enc.payload
              /\ enc.out[n + 4] = SumOfParity(enc.payload, 0)
              /\ enc.out[n + 5] = SumOfParity(enc.payload, 1)

\* C32 witness: a payload whose even-indexed bytes sum past 255 was encoded
C32_Witness ==
    /\ enc.fn = "Encode"
    /\ enc.arg = 12
    /\ enc.payload = <<255, 128, 1>>
    /\ enc.out = <<239, 221, 12, 255, 128, 1, 0, 128>>

\* C36: for every cached SleepTimerSetting byte 0..255 the Lunar
\* AdvanceSleepTimeout requests a setting in 0..5: the cached value plus one
\* for 0..4, and 0 (disabled) for 5.
C36_LunarRequestLegal ==
    enc.fn = "LunarSleepTimeout"
        => /\ enc.out \in AutoOffSettingValues
           /\ enc.arg \in 0..4 => enc.out = enc.arg + 1
           /\ enc.arg = 5 => enc.out = 0

(***************************************************************************)
(* Themis AdvanceSleepTimeout against a device in the loop (SpecAdvance):  *)
(* the caller asks for the setting after the cached standby time, the      *)
(* device applies the setting byte of the command it received and reports  *)
(* it in tenths of a minute in its next status record                      *)
(***************************************************************************)
\* a 20-byte status record that carries raw in bytes 14..15, big-endian
ThemisStatusRecord(raw) ==
    [ThemisRecord(ThemisFrameLen, 43, 0) EXCEPT ![15] = raw \div 256, ![16] = raw % 256]

\* t.status.StandbyTime after the notification handler decoded the record
ReportedStandby(raw) == ThemisDecodeStatusUpdate(ThemisStatusRecord(raw)).msg.StandbyTime

\* raw standby fields of the first record: tenths of the minutes 0..MaxCurrent,
\* a value between two minutes, and the largest uint16
FirstReports == {10 * m : m \in 0..MaxCurrent} \cup {59, MaxUint16}

InitAdvance ==
    /\ dbuf = <<>>
    /\ dres = NotDecoded
    /\ scan = NoScan
    /\ enc = NoEnc
    /\ NewCycler
    /\ New("themis")
    /\ \E raw \in FirstReports :
         dev = [NoDev EXCEPT !.start = ReportedStandby(raw), !.standby = ReportedStandby(raw)]

\* (variant) AdvanceSleepTimeout that asks for the cycler's rotation element
AdvanceCall_Rotation ==
    /\ Len(dev.requested) < MaxAdvances
    /\ \E w \in {"ok", "err"} :
         LET timeout == At(mgr.settings, mgr.index)
         IN dev' = [dev EXCEPT
                      !.requested = Append(@, timeout),
                      !.cmd = IF w = "ok" THEN ThemisBuildAutoOffCommand(timeout) ELSE @,
                      !.lockstep = @ /\ w = "ok" /\ dev.cmd = <<>>]
    /\ UNCHANGED <<dbuf, dres, cyclerVars, scan, enc, sessionVars>>

\* ThemisScale.AdvanceSleepTimeout: NextWithInt of the cached standby time,
\* BuildAutoOffCommand, Write; a failed write delivers nothing
AdvanceCall ==
    /\ Len(dev.requested) < MaxAdvances
    /\ \E w \in {"ok", "err"} :
         LET timeout == NextWithInt(mgr, dev.standby)
         IN dev' = [dev EXCEPT
                      !.requested = Append(@, timeout),
                      !.cmd = IF w = "ok" THEN ThemisBuildAutoOffCommand(timeout) ELSE @,
                      !.lockstep = @ /\ w = "ok" /\ dev.cmd = <<>>]
    /\ UNCHANGED <<dbuf, dres, cyclerVars, scan, enc, sessionVars>>

\* the device applies the setting byte of the command and reports it in its
\* next status record, which the notification handler decodes into t.status
DeviceReport ==
    /\ dev.cmd # <<>>
    /\ dev' = [dev EXCEPT !.standby = ReportedStandby(10 * At(dev.cmd, 4)), !.cmd = <<>>]
    /\ UNCHANGED <<dbuf, dres, cyclerVars, scan, enc, sessionVars>>

NextAdvance == AdvanceCall \/ DeviceReport \/ CallNext

SpecAdvance == InitAdvance /\ [][NextAdvance]_vars

\* C35: if the device applies each requested setting and reports it back before
\* the next call, then from a reported standby time in {5,10,15,20,30} every
\* call requests the legal setting after the previous one (30 wraps to 5), so
\* five calls request each legal setting exactly once and the fifth requests
\* the starting value, which the device then reports.
C35_AdvanceCyclesAll ==
    (dev.lockstep /\ dev.start \in ThemisLegalSettings)
        => LET r == dev.requested
               Prev(i) == IF i = 1 THEN dev.start ELSE r[i - 1]
           IN /\ \A i \in DOMAIN r : r[i] = CycleSucc(Prev(i))
              /\ Len(r) >= 5
                    => /\ {r[i] : i \in 1..5} = ThemisLegalSettings
                       /\ r[5] = dev.start
                       /\ (Len(r) = 5 /\ dev.cmd = <<>>) => dev.standby = dev.start

\* C35 witness: five calls from 20 minutes, each reported back, ended at 20
C35_Witness ==
    /\ dev.lockstep
    /\ dev.start = 20
    /\ dev.requested = <<30, 5, 10, 15, 20>>
    /\ dev.cmd = <<>>
    /\ dev.standby = 20

(***************************************************************************)
(* Claims about the Lunar status decoders (checked under SpecDecode)       *)
(***************************************************************************)
\* the message has the fields the bytes 1..4 of the payload pack
StatusBitsOf(payload, msg) ==
    /\ msg.Battery = payload[2] % 128
    /\ msg.IsTimerRunning = (payload[2] >= 128)
    /\ msg.Unit = payload[3] % 128
    /\ msg.IsCountdownRunning = (payload[3] >= 128)
    /\ msg.ScaleMode = payload[4] % 128
    /\ msg.IsTared = (payload[4] >= 128)
    /\ msg.SleepTimerSetting = payload[5]

\* C33: DecodeStatusMessage (both the one of package comms and the one of
\* package decode) returns, for every payload of at least 9 bytes, a message
\* with Battery = byte1 mod 128, IsTimerRunning iff byte1 >= 128, Unit = byte2
\* mod 128, IsCountdownRunning iff byte2 >= 128, ScaleMode = byte3 mod 128,
\* IsTared iff byte3 >= 128 and SleepTimerSetting = byte4; a shorter payload
\* yields an error.
C33_StatusBitPacking ==
    dres.fam \in {"status", "decode.status"}
        => IF Len(dbuf) >= 9
           THEN dres.r.kind = "ok" /\ StatusBitsOf(dbuf, dres.r.msg)
           ELSE dres.r.kind = "err"

\* C34: for every frame F that DecodeNotification decodes without error, every
\* prefix P that does not hold EF DD and every suffix S, DecodeNotification of
\* P ++ F ++ S returns the message DecodeNotification(F) returns.
C34_PaddingIgnored ==
    dres.fam = "lunar.padded"
        => /\ dres.r.kind = "ok"
           /\ dres.r = DecodeNotification(dbuf)

\* C34 witness: a status frame decoded between a prefix that ends in EF and a
\* suffix that is the beginning of another frame
C34_Witness ==
    /\ dres.fam = "lunar.padded"
    /\ dres.pre = <<12, HeaderPrefix1, HeaderPrefix1>>
    /\ dres.suf = <<HeaderPrefix1, HeaderPrefix2, 8, 9>>
    /\ At(dbuf, 2) = 8
    /\ dres.r.kind = "ok"
    /\ dres.r.msg.type = "Status"

(***************************************************************************)
(* Claims about Disconnect and reconnection                                *)
(***************************************************************************)
\* thread t leaves Disconnect at its first statement: the transport call failed
TransportDisconnectFailed(t) ==
    /\ pc[t] = "d_bt"
    /\ pc'[t] # "d_bt"
    /\ pc'[t] # "d_close"

\* C37: when the transport's disconnect call fails, Disconnect returns that
\* error and changes nothing else: the weight update channel, the cancellation
\* signal and the connected flag keep their values.
C37_FailedDisconnectChangesNothing ==
    [][\A t \in Threads :
          TransportDisconnectFailed(t)
              => /\ pc'[t] = cont[t]
                 /\ (t = Caller /\ cont[t] = "idle") => last'.ret = "err"
                 /\ chans' = chans
                 /\ ctxs' = ctxs
                 /\ weightUpdateChan' = weightUpdateChan
                 /\ disconnectCtx' = disconnectCtx
                 /\ connected' = connected
                 /\ btDevice' = btDevice
                 /\ notifyOn' = notifyOn]_vars

\* C37 witness: the caller's Disconnect of a connected scale returned the
\* transport's error; the channel is open, the signal not fired, the flag set
C37_Witness ==
    /\ last.op = "Disconnect"
    /\ last.ret = "err"
    /\ pc[Caller] = "idle"
    /\ connected
    /\ weightUpdateChan # Nil
    /\ chans[weightUpdateChan].open
    /\ ~ctxs[disconnectCtx]

\* the caller's Connect, called after a Disconnect that returned nil, obtained
\* the transport connection: the new session begins
ReconnectBegins ==
    /\ pc[Caller] = "idle"
    /\ pc'[Caller] = "c_chars"
    /\ last.op = "Disconnect"
    /\ last.ret = "ok"

\* the status cache as New() leaves it
EmptyStatus == IF family = "lunar" THEN [ptr |-> "val", v |-> LunarZeroStatus] ELSE NilStatus

\* C38: no session state leaks across reconnection: when a Connect that follows
\* a Disconnect begins its session, the scale is unsynced, its status cache is
\* empty and (for the family whose Connect does not stamp the time itself) it
\* holds no last-notification timestamp of the previous session.
C38_NoStateLeaksAcrossReconnect ==
    [][ReconnectBegins
          => /\ ~synced'
             /\ status' = EmptyStatus
             /\ family = "lunar" => lastNotified' = ZeroTime]_vars

\* C39: in every reachable state, the states between the steps of Disconnect
\* included, IsConnected() = true implies that the session's weight update
\* channel is open and its cancellation signal has not fired.
C39_ConnectedImpliesOpen ==
    connected
        => /\ weightUpdateChan # Nil
           /\ chans[weightUpdateChan].open
           /\ disconnectCtx # Nil
           /\ ~ctxs[disconnectCtx]

(***************************************************************************)
(* Claims about ScanForOne (checked under SpecScanOne)                     *)
(***************************************************************************)
\* C40: whenever ScanForOne returns without an error, the name of the device
\* it returns starts with one of the registered prefixes, also when the scan
\* duration elapsed without a matching advertisement.
C40_ScanForOneReturnsMatch ==
    (scan.pc = "one_done" /\ scan.ret = "ok")
        => \E p \in scan.prefixes : HasPrefix(scan.results[1].Name, p)

====
